---- MODULE Spec2Model ----
(***************************************************************************)
(* Model of pve-lxc-server: the NAT rule reconciler (app/nat_service.py),  *)
(* and the container rebuild workflow and task watcher (app/proxmox.py).   *)
(*                                                                         *)
(* Every operation of nat_service.py is a pure operator from the state it  *)
(* reads (rule table, live PREROUTING chain) and its inputs (the request,  *)
(* what the control plane and the packet filter answer during the call) to *)
(* the state it leaves and what it returns; one action applies it.         *)
(***************************************************************************)
EXTENDS Integers, Sequences, FiniteSets, TLC

VARIABLES
    rules,      \* RuleStore: the committed rows of the nat rule table
    nextId,     \* the next surrogate id the table hands out
    live,       \* the PREROUTING chain of the nat table, in chain order
    ops,        \* the number of operations run so far
    watch,      \* one call of _wait_for_task: where it is, the clock, its result
    rebuild,    \* one call of rebuild_container: its phase, what it submitted
    request,    \* one call of _do_request: its attempts and reconnections
    creating,   \* create_nat_rule calls running concurrently: where each one is
    syncing     \* one resync_all_iptables_rules call running beside them

natVars == <<rules, nextId, live, ops>>
raceVars == <<creating, syncing>>
vars == <<rules, nextId, live, ops, watch, rebuild, request, creating, syncing>>

-----------------------------------------------------------------------------
(* Bounds and domains of the model *)

MaxOps == 4            \* operations in one run
MaxTimeout == 5        \* the largest timeout a wait is called with
MaxFetchTime == 1      \* the longest a status fetch takes
PollInterval == 2      \* time.sleep(2)
MaxRetries == 1        \* max_retries = 1
DescLimit == 100       \* rule.description[:100]

None == "none"         \* Python None / a falsy answer
Unset == <<>>          \* a field left out of NatRuleUpdate (exclude_unset)
Opt(S) == {Unset} \cup {<<v>> : v \in S}   \* a field left out, or set to v
Node == "pve"
Vmids == {105, 106}
HostPorts == {8080}
ContainerPorts == {80}
Addresses == {"10.0.0.5", "10.0.0.6"}
ProtocolInputs == {"tcp", "udp", "TCP"}
Descriptions == {<<>>, <<"w">>}
Statuses == {"running", "stopped", "raise"}   \* "raise": the status fetch fails
OwnerTag == "pve-lxc-server:"

\* str.lower() on the protocol strings of the model
Lower(p) ==
    CASE p = "TCP" -> "tcp"
      [] p = "UDP" -> "udp"
      [] OTHER -> p

Min(a, b) == IF a <= b THEN a ELSE b

\* description[:100]
Truncate(d) == SubSeq(d, 1, Min(Len(d), DescLimit))

-----------------------------------------------------------------------------
(* The packet filter: _run_command on an iptables command line *)

NoComment == [tag |-> "", rule_id |-> 0, node |-> "", vmid |-> 0, desc |-> <<>>]

\* what the packet filter answers during one call: the listing fails, adds
\* to these host ports fail, deletes fail
Faults == [list : BOOLEAN, add : SUBSET HostPorts, del : BOOLEAN]
NoFault == [list |-> FALSE, add |-> {}, del |-> FALSE]

\* the rule specification _apply_iptables_rule builds from a rule
\* a translation that forwards to the host port instead of the container port
IptablesSpecSamePort(rule) ==
    [protocol |-> rule.protocol,
     dport |-> rule.host_port,
     to_ip |-> rule.container_ip_at_creation,
     to_port |-> rule.host_port,
     comment |-> IF rule.description # <<>>
                 THEN [tag |-> OwnerTag, rule_id |-> rule.id, node |-> rule.node,
                       vmid |-> rule.vmid, desc |-> Truncate(rule.description)]
                 ELSE NoComment]

IptablesSpec(rule) ==
    [protocol |-> rule.protocol,
     dport |-> rule.host_port,
     to_ip |-> rule.container_ip_at_creation,
     to_port |-> rule.container_port,
     comment |-> IF rule.description # <<>>
                 THEN [tag |-> OwnerTag, rule_id |-> rule.id, node |-> rule.node,
                       vmid |-> rule.vmid, desc |-> Truncate(rule.description)]
                 ELSE NoComment]

FirstMatch(chain, spec) ==
    IF \E i \in 1..Len(chain) : chain[i] = spec
    THEN CHOOSE i \in 1..Len(chain) :
            chain[i] = spec /\ \A j \in 1..(i - 1) : chain[j] # spec
    ELSE 0

RemoveAt(chain, i) == SubSeq(chain, 1, i - 1) \o SubSeq(chain, i + 1, Len(chain))

\* iptables -t nat -A PREROUTING <spec>: appends, also when an equal entry is there
RunAdd(chain, spec, fault) ==
    IF spec.dport \in fault.add
    THEN [ok |-> FALSE, chain |-> chain]
    ELSE [ok |-> TRUE, chain |-> Append(chain, spec)]

\* iptables -t nat -D PREROUTING <spec>: removes the first equal entry, fails
\* when there is none
RunDelete(chain, spec, fault) ==
    IF fault.del \/ FirstMatch(chain, spec) = 0
    THEN [ok |-> FALSE, chain |-> chain]
    ELSE [ok |-> TRUE, chain |-> RemoveAt(chain, FirstMatch(chain, spec))]

Cmd(action, spec, ok) == [kind |-> "iptables", action |-> action, spec |-> spec, ok |-> ok]

\* _apply_iptables_rule(rule, add)
ApplyIptablesRule(rule, add, chain, fault) ==
    LET spec == IptablesSpec(rule)
        r == IF add THEN RunAdd(chain, spec, fault) ELSE RunDelete(chain, spec, fault)
    IN  [ok |-> r.ok, chain |-> r.chain,
         event |-> Cmd(IF add THEN "-A" ELSE "-D", spec, r.ok)]

-----------------------------------------------------------------------------
(* The RuleStore *)

NoRule == [id |-> 0, node |-> "", vmid |-> 0, host_port |-> 0, container_port |-> 0,
           protocol |-> "", container_ip_at_creation |-> None, description |-> <<>>,
           enabled |-> FALSE]

\* the table's uniqueness constraint: (host_port, protocol) is unique among
\* the enabled rows; a commit that would break it raises IntegrityError
\* a table without the uniqueness constraint
IntegrityErrorNever(rows) == FALSE

IntegrityError(rows) ==
    \E r1, r2 \in rows :
        /\ r1.id # r2.id
        /\ r1.enabled /\ r2.enabled
        /\ r1.host_port = r2.host_port
        /\ r1.protocol = r2.protocol

\* get_nat_rule_by_id
GetNatRuleById(rows, rule_id) ==
    IF \E r \in rows : r.id = rule_id
    THEN CHOOSE r \in rows : r.id = rule_id
    ELSE NoRule

\* check_host_port_conflict; rule_id_to_exclude = 0 is falsy, no exclusion
CheckHostPortConflict(rows, host_port, protocol, rule_id_to_exclude) ==
    \E r \in rows :
        /\ r.host_port = host_port
        /\ r.protocol = protocol
        /\ r.enabled
        /\ (rule_id_to_exclude # 0 => r.id # rule_id_to_exclude)

\* the calls an operation makes, in the order it makes them, each with the
\* answer it got
\* `if not container_ip`: the address lookup gave nothing
\* a lookup whose empty answer is taken for an address
UnresolvableNever(container_ip) == FALSE

Unresolvable(container_ip) == container_ip = None

\* `container_status.get('status') != 'running'`
\* a status check that lets every container pass
NotRunningNever(status) == FALSE

NotRunning(status) == status # "running"

\* db_rule.enabled = False
\* a failure path that leaves the row as it was
DisableRuleKeeps(rule) == rule

DisableRule(rule) == [rule EXCEPT !.enabled = FALSE]

Ev(kind) == [kind |-> kind]
Lookup(vmid, ip) == [kind |-> "get_container_ip", vmid |-> vmid, ip |-> ip]
Status(status) == [kind |-> "get_container_status", status |-> status]
DbCommit(ok) == [kind |-> "commit", ok |-> ok]

-----------------------------------------------------------------------------
(* What an operation leaves and returns *)

NoStats == [cleared_rules |-> 0, failed_to_clear_rules |-> 0, applied_rules |-> 0,
            failed_to_apply_rules |-> 0, rules_disabled_due_to_error_ids |-> {}]

\* rws, nid, chain: the table, the id counter and the chain after the call;
\* how: "returned" or "raised" (an exception left the function);
\* ok, rule, msg, stats: what was returned; events: the calls made
Outcome(op, req, rws, nid, chain, how, ok, rule, msg, events, stats) ==
    [op |-> op, req |-> req, rules |-> rws, nextId |-> nid, live |-> chain,
     how |-> how, ok |-> ok, rule |-> rule, msg |-> msg, events |-> events,
     stats |-> stats]

-----------------------------------------------------------------------------
(* create_nat_rule *)

CreateRequests ==
    [vmid : Vmids, host_port : HostPorts, container_port : ContainerPorts,
     protocol : ProtocolInputs, description : Descriptions]

\* what the environment answers during one create: the container's address
\* (None when it has none), its status ("raise" when the status fetch fails),
\* the packet filter's faults, and which commit of the call fails (0: none,
\* 1: the insert, 2: the commit that disables the rule)
CreateEnvs ==
    [ip : Addresses \cup {None}, status : Statuses,
     fault : {f \in Faults : ~f.list /\ ~f.del}, dbFailAt : 0..2]

CreateNatRule(rows, nid, chain, req, env) ==
    LET Out(rws, n, ch, how, rule, msg, events) ==
            Outcome("create", req, rws, n, ch, how, rule # NoRule, rule, msg,
                    events, NoStats)
        e1 == <<Ev("check_conflict")>>
        e2 == Append(e1, Lookup(req.vmid, env.ip))
        e3 == Append(e2, Status(env.status))
        db_rule == [id |-> nid, node |-> Node, vmid |-> req.vmid,
                    host_port |-> req.host_port,
                    container_port |-> req.container_port,
                    protocol |-> Lower(req.protocol),
                    container_ip_at_creation |-> env.ip,
                    description |-> req.description,
                    enabled |-> TRUE]
        inserted == rows \cup {db_rule}
        e4 == Append(e3, DbCommit(TRUE))
        a == ApplyIptablesRule(db_rule, TRUE, chain, env.fault)
        e5 == Append(e4, a.event)
        disabled == DisableRule(db_rule)
    IN  IF CheckHostPortConflict(rows, req.host_port, req.protocol, 0)
        THEN Out(rows, nid, chain, "returned", NoRule, "conflict", e1)
        ELSE IF Unresolvable(env.ip)
        THEN Out(rows, nid, chain, "returned", NoRule, "no_ip", e2)
        ELSE IF env.status = "raise"
        THEN Out(rows, nid, chain, "raised", NoRule, "status_exception", e3)
        ELSE IF NotRunning(env.status)
        THEN Out(rows, nid, chain, "returned", NoRule, "not_running", e3)
        ELSE IF env.dbFailAt = 1
        THEN Out(rows, nid, chain, "returned", NoRule, "db_error",
                 Append(e3, DbCommit(FALSE)))
        ELSE IF IntegrityError(inserted)
        THEN Out(rows, nid, chain, "returned", NoRule, "integrity",
                 Append(e3, DbCommit(FALSE)))
        ELSE IF a.ok
        THEN Out(inserted, nid + 1, a.chain, "returned", db_rule, "created", e5)
        ELSE IF env.dbFailAt = 2
        THEN Out(inserted, nid + 1, a.chain, "returned", db_rule,
                 "apply_failed_disable_failed", Append(e5, DbCommit(FALSE)))
        ELSE Out(rows \cup {disabled}, nid + 1, a.chain, "returned", disabled,
                 "apply_failed_disabled", Append(e5, DbCommit(TRUE)))

-----------------------------------------------------------------------------
(* update_nat_rule *)

\* NatRuleUpdate, every field optional
UpdateRequests ==
    [host_port : {Unset},
     protocol : Opt({"udp", "TCP"}),
     container_port : {Unset},
     enabled : Opt(BOOLEAN),
     description : Opt(Descriptions)]

\* dbFailAt: 1 the commit of the field changes, 2 the commit after the address
\* lookup, 3 the commit that disables the rule after a failed apply
UpdateEnvs ==
    [ip : Addresses \cup {None}, fault : {f \in Faults : ~f.list}, dbFailAt : 0..3]

\* update_data.get(key, default)
Get(update_data, key, default) ==
    IF update_data[key] # Unset THEN update_data[key][1] ELSE default

\* changed_networking_params
ChangedNetworkingParams(db_rule, update_data) ==
    \/ (update_data.host_port # Unset
            /\ update_data.host_port[1] # db_rule.host_port)
    \/ (update_data.protocol # Unset
            /\ Lower(update_data.protocol[1]) # db_rule.protocol)
    \/ (update_data.container_port # Unset
            /\ update_data.container_port[1] # db_rule.container_port)

\* an update that makes no conflict check
UpdateConflictNever(rows, db_rule, update_data) == FALSE

\* the conflict check of the update, made only when host_port or protocol is given
UpdateConflict(rows, db_rule, update_data) ==
    LET new_host_port == Get(update_data, "host_port", db_rule.host_port)
        new_protocol == Lower(Get(update_data, "protocol", db_rule.protocol))
    IN  /\ (update_data.host_port # Unset \/ update_data.protocol # Unset)
        /\ (new_host_port # db_rule.host_port \/ new_protocol # db_rule.protocol)
        /\ CheckHostPortConflict(rows, new_host_port, new_protocol, db_rule.id)

\* the old rule is retracted
Retracts(db_rule, update_data) ==
    db_rule.enabled
        /\ (ChangedNetworkingParams(db_rule, update_data)
                \/ ~Get(update_data, "enabled", db_rule.enabled))

\* the new rule is applied
\* an update that applies after a networking change only, not on re-enabling
AppliesOnChangeOnly(db_rule, update_data) ==
    /\ Get(update_data, "enabled", db_rule.enabled)
    /\ ChangedNetworkingParams(db_rule, update_data)

Applies(db_rule, update_data) ==
    LET new_enabled_state == Get(update_data, "enabled", db_rule.enabled)
    IN  new_enabled_state
            /\ (ChangedNetworkingParams(db_rule, update_data)
                    \/ (~db_rule.enabled /\ new_enabled_state))

\* the container address is looked up again before the apply
LooksUp(db_rule, update_data) ==
    /\ Applies(db_rule, update_data)
    /\ ChangedNetworkingParams(db_rule, update_data)
    /\ Get(update_data, "enabled", db_rule.enabled)

\* a snapshot taken after the new values were set
OriginalRuleFromUpdate(db_rule, updated) == updated

\* original_rule_for_iptables_delete: the pre-update snapshot
OriginalRuleForIptablesDelete(db_rule, updated) == db_rule

\* final_message
UpdateFinalMessage(iptables_delete_success) ==
    IF iptables_delete_success THEN "updated" ELSE "updated_retract_failed"

\* the message when the address cannot be resolved
UpdateNoIpMessage(iptables_delete_success) == "updated_no_ip_disabled"

\* the message when the apply failed; it ends with the retraction's message
UpdateApplyFailedMessage(iptables_delete_success) ==
    IF iptables_delete_success
    THEN "updated_apply_failed_disabled"
    ELSE "updated_apply_failed_disabled_retract_failed"

UpdateNatRule(rows, nid, chain, rule_id, update_data, env) ==
    LET Out(rws, ch, how, rule, msg, events) ==
            Outcome("update", [rule_id |-> rule_id, update_data |-> update_data],
                    rws, nid, ch, how, rule # NoRule, rule, msg, events, NoStats)
        db_rule == GetNatRuleById(rows, rule_id)
        updated ==
            [db_rule EXCEPT
                !.host_port = Get(update_data, "host_port", @),
                !.protocol = Lower(Get(update_data, "protocol", @)),
                !.container_port = Get(update_data, "container_port", @),
                !.enabled = Get(update_data, "enabled", @),
                !.description = Get(update_data, "description", @)]
        original == OriginalRuleForIptablesDelete(db_rule, updated)
        retracts == Retracts(db_rule, update_data)
        d == ApplyIptablesRule(original, FALSE, chain, env.fault)
        iptables_delete_success == IF retracts THEN d.ok ELSE TRUE
        ch1 == IF retracts THEN d.chain ELSE chain
        e1 == IF retracts THEN <<d.event>> ELSE <<>>
        rows1 == (rows \ {db_rule}) \cup {updated}
        e2 == Append(e1, DbCommit(TRUE))
        applies == Applies(db_rule, update_data)
        looks_up == LooksUp(db_rule, update_data)
        e3 == IF looks_up THEN Append(e2, Lookup(updated.vmid, env.ip)) ELSE e2
        off == DisableRule(updated)
        with_ip == IF looks_up
                   THEN [updated EXCEPT !.container_ip_at_creation = env.ip]
                   ELSE updated
        rows2 == (rows \ {db_rule}) \cup {with_ip}
        e4 == IF looks_up THEN Append(e3, DbCommit(TRUE)) ELSE e3
        a == ApplyIptablesRule(with_ip, TRUE, ch1, env.fault)
        e5 == Append(e4, a.event)
        off2 == DisableRule(with_ip)
    IN  IF db_rule = NoRule
        THEN Out(rows, chain, "returned", NoRule, "not_found", <<>>)
        ELSE IF UpdateConflict(rows, db_rule, update_data)
        THEN Out(rows, chain, "returned", NoRule, "conflict", <<>>)
        ELSE IF env.dbFailAt = 1
        THEN Out(rows, ch1, "returned", NoRule, "db_error", Append(e1, DbCommit(FALSE)))
        ELSE IF IntegrityError(rows1)
        THEN Out(rows, ch1, "returned", NoRule, "integrity", Append(e1, DbCommit(FALSE)))
        ELSE IF ~applies
        THEN Out(rows1, ch1, "returned", updated,
                 UpdateFinalMessage(iptables_delete_success), e2)
        ELSE IF looks_up /\ env.dbFailAt = 2
        THEN Out(rows1, ch1, "raised", NoRule, "commit_exception",
                 Append(e3, DbCommit(FALSE)))
        ELSE IF looks_up /\ Unresolvable(env.ip)
        THEN Out((rows \ {db_rule}) \cup {off}, ch1, "returned", off,
                 UpdateNoIpMessage(iptables_delete_success), Append(e3, DbCommit(TRUE)))
        ELSE IF a.ok
        THEN Out(rows2, a.chain, "returned", with_ip,
                 UpdateFinalMessage(iptables_delete_success), e5)
        ELSE IF env.dbFailAt = 3
        THEN Out(rows2, a.chain, "raised", NoRule, "commit_exception",
                 Append(e5, DbCommit(FALSE)))
        ELSE Out((rows \ {db_rule}) \cup {off2}, a.chain, "returned", off2,
                 UpdateApplyFailedMessage(iptables_delete_success),
                 Append(e5, DbCommit(TRUE)))

-----------------------------------------------------------------------------
(* delete_nat_rule *)

DeleteEnvs == [fault : {f \in Faults : ~f.list /\ f.add = {}}, dbFailAt : 0..1]

\* a message that never tells of a failed retraction
DeleteMessageQuiet(enabled, iptables_success) ==
    IF enabled THEN "deleted_retracted" ELSE "deleted"

\* the message of a delete whose commit succeeded
DeleteMessage(enabled, iptables_success) ==
    IF enabled /\ ~iptables_success THEN "deleted_retract_failed"
    ELSE IF enabled /\ iptables_success THEN "deleted_retracted"
    ELSE "deleted"

DeleteNatRule(rows, nid, chain, rule_id, env) ==
    LET Out(rws, ch, ok, rule, msg, events) ==
            Outcome("delete", [rule_id |-> rule_id], rws, nid, ch, "returned", ok,
                    rule, msg, events, NoStats)
        db_rule == GetNatRuleById(rows, rule_id)
        d == ApplyIptablesRule(db_rule, FALSE, chain, env.fault)
        ch1 == IF db_rule.enabled THEN d.chain ELSE chain
        e1 == IF db_rule.enabled THEN <<d.event>> ELSE <<>>
    IN  IF db_rule = NoRule
        THEN Out(rows, chain, FALSE, NoRule, "not_found", <<>>)
        ELSE IF env.dbFailAt = 1
        THEN Out(rows, ch1, FALSE, NoRule, "db_error", Append(e1, DbCommit(FALSE)))
        ELSE Out(rows \ {db_rule}, ch1, TRUE, db_rule,
                 DeleteMessage(db_rule.enabled, d.ok),
                 Append(e1, DbCommit(TRUE)))

-----------------------------------------------------------------------------
(* resync_all_iptables_rules *)

\* ip: what get_container_ip answers for each container during the call
ResyncEnvs == [ip : [Vmids -> Addresses \cup {None}], fault : Faults, dbFailAt : 0..1]

\* the lines of the listing that carry the ownership comment, in chain order
TaggedLines(chain) == SelectSeq(chain, LAMBDA e : e.comment.tag = OwnerTag)

Reverse(s) == [i \in 1..Len(s) |-> s[Len(s) + 1 - i]]

\* step 1: one delete per tagged line of the listing, last line first
\* a flush that stops at the first delete that fails
RECURSIVE FlushUntilFailure(_, _, _, _)
FlushUntilFailure(cmds, chain, fault, acc) ==
    IF cmds = <<>>
    THEN [chain |-> chain, cleared |-> acc.cleared, failed |-> acc.failed,
          events |-> acc.events]
    ELSE LET r == RunDelete(chain, Head(cmds), fault)
         IN  FlushUntilFailure(IF r.ok THEN Tail(cmds) ELSE <<>>, r.chain, fault,
                   [cleared |-> acc.cleared + (IF r.ok THEN 1 ELSE 0),
                    failed |-> acc.failed + (IF r.ok THEN 0 ELSE 1),
                    events |-> Append(acc.events, Cmd("-D", Head(cmds), r.ok))])

RECURSIVE Flush(_, _, _, _)
Flush(cmds, chain, fault, acc) ==
    IF cmds = <<>>
    THEN [chain |-> chain, cleared |-> acc.cleared, failed |-> acc.failed,
          events |-> acc.events]
    ELSE LET r == RunDelete(chain, Head(cmds), fault)
         IN  Flush(Tail(cmds), r.chain, fault,
                   [cleared |-> acc.cleared + (IF r.ok THEN 1 ELSE 0),
                    failed |-> acc.failed + (IF r.ok THEN 0 ELSE 1),
                    events |-> Append(acc.events, Cmd("-D", Head(cmds), r.ok))])

\* the enabled rows, in id order
RECURSIVE SortById(_)
SortById(rows) ==
    IF rows = {}
    THEN <<>>
    ELSE LET first == CHOOSE r \in rows : \A q \in rows : r.id <= q.id
         IN  <<first>> \o SortById(rows \ {first})

\* drift repair: the address just resolved replaces the stored one
\* a reconciler that never rewrites the stored address
RepairNever(db_rule, container_ip) == db_rule

Repair(db_rule, container_ip) ==
    IF db_rule.container_ip_at_creation # container_ip
    THEN [db_rule EXCEPT !.container_ip_at_creation = container_ip]
    ELSE db_rule

\* the rule resync hands to _apply_iptables_rule: the row as repaired
\* a reconciler that installs the row as it was read, before the repair
RuleToApplyAsRead(db_rule, container_ip) == db_rule

RuleToApply(db_rule, container_ip) == Repair(db_rule, container_ip)

\* step 2: resolve, repair the stored address, apply; disable on error
RECURSIVE ApplyAll(_, _, _, _)
ApplyAll(todo, env, acc, rows) ==
    IF todo = <<>>
    THEN [rows |-> rows, chain |-> acc.chain, applied |-> acc.applied,
          failed |-> acc.failed, disabled |-> acc.disabled, events |-> acc.events]
    ELSE LET db_rule == Head(todo)
             container_ip == env.ip[db_rule.vmid]
             ev1 == Append(acc.events, Lookup(db_rule.vmid, container_ip))
             off == DisableRule(db_rule)
             repaired == Repair(db_rule, container_ip)
             a == ApplyIptablesRule(RuleToApply(db_rule, container_ip), TRUE,
                                    acc.chain, env.fault)
             off2 == DisableRule(repaired)
         IN  IF Unresolvable(container_ip)
             THEN ApplyAll(Tail(todo), env,
                           [acc EXCEPT !.disabled = Append(@, db_rule.id),
                                       !.events = ev1],
                           (rows \ {db_rule}) \cup {off})
             ELSE IF a.ok
             THEN ApplyAll(Tail(todo), env,
                           [acc EXCEPT !.chain = a.chain, !.applied = @ + 1,
                                       !.events = Append(ev1, a.event)],
                           (rows \ {db_rule}) \cup {repaired})
             ELSE ApplyAll(Tail(todo), env,
                           [acc EXCEPT !.chain = a.chain, !.failed = @ + 1,
                                       !.disabled = Append(@, db_rule.id),
                                       !.events = Append(ev1, a.event)],
                           (rows \ {db_rule}) \cup {off2})

Range(s) == {s[i] : i \in 1..Len(s)}

\* list(set(rules_disabled_due_to_error))
\* a report that names no rule
DisabledIdsNone(disabled) == {}

DisabledIds(disabled) == Range(disabled)

\* list_success: whether the listing of PREROUTING succeeded
\* a reconciler that takes every listing for a success
ListSuccessAlways(fault) == TRUE

ListSuccess(fault) == ~fault.list

\* db_rules: the rows the apply phase goes through, the enabled ones
\* a reconciler that goes through every row of the table
DbRulesAll(rows) == rows

DbRules(rows) == {r \in rows : r.enabled}

ResyncAllIptablesRules(rows, nid, chain, env) ==
    LET Out(rws, ch, ok, msg, events, stats) ==
            Outcome("resync", None, rws, nid, ch, "returned", ok, NoRule, msg,
                    events, stats)
        listing == [kind |-> "iptables", action |-> "-S", spec |-> NoComment,
                    ok |-> ~env.fault.list]
        f == Flush(Reverse(TaggedLines(chain)), chain, env.fault,
                   [cleared |-> 0, failed |-> 0, events |-> <<listing>>])
        db_rules == SortById(DbRules(rows))
        a == ApplyAll(db_rules, env,
                      [chain |-> f.chain, applied |-> 0, failed |-> 0,
                       disabled |-> <<>>, events |-> f.events],
                      rows)
    IN  IF ~ListSuccess(env.fault)
        THEN Out(rows, chain, FALSE, "list_failed", <<listing>>, NoStats)
        ELSE IF env.dbFailAt = 1
        THEN Out(rows, a.chain, FALSE, "commit_failed",
                 Append(a.events, DbCommit(FALSE)), NoStats)
        ELSE Out(a.rows, a.chain, TRUE, "resynced", Append(a.events, DbCommit(TRUE)),
                 [cleared_rules |-> f.cleared,
                  failed_to_clear_rules |-> f.failed,
                  applied_rules |-> a.applied,
                  failed_to_apply_rules |-> a.failed,
                  rules_disabled_due_to_error_ids |-> DisabledIds(a.disabled)])

-----------------------------------------------------------------------------
(* _connect and _do_request *)

\* the errors an API call raises: the exception's class, the status code of
\* its response (HTTPError only) and the telling word of its text
ApiErrors ==
    [class : {"HTTPError"}, status_code : {401, 500}, text : {"failed"}]
        \cup [class : {"HTTPError", "ConnectionError", "ProxmoxResourceException"},
              status_code : {0}, text : {"Ticket", "authenticate", "refused"}]
        \cup [class : {"ValueError"}, status_code : {0}, text : {"ticket", "refused"}]

\* the error _connect raises, whatever made the connection fail
ConnectError == [class |-> "Exception", status_code |-> 0, text |-> "connect"]

NoError == [class |-> "", status_code |-> 0, text |-> ""]

\* str(e).lower()
LowerError(text) == IF text = "Ticket" THEN "ticket" ELSE text

\* except (HTTPError, ConnectionError, ProxmoxResourceException)
Caught(e) == e.class \in {"HTTPError", "ConnectionError", "ProxmoxResourceException"}

IsAuthError(e) ==
    \/ e.class = "HTTPError" /\ e.status_code = 401
    \/ LowerError(e.text) \in {"authenticate", "ticket"}

\* `if is_auth_error and attempt < max_retries`
\* a handler that reconnects after any error
ReconnectsOnAnyError(e, attempt) == attempt < MaxRetries

Reconnects(e, attempt) == Caught(e) /\ IsAuthError(e) /\ attempt < MaxRetries

\* session numbers the ProxmoxAPI objects self.proxmox has held (0: None),
\* bound is the object api_call_func was taken from by the caller, used the
\* object each call ran on
IdleRequest ==
    [pc |-> "idle", proxmox |-> FALSE, attempt |-> 0, calls |-> <<>>,
     connects |-> 0, reconnects |-> <<>>, raised |-> NoError,
     session |-> 0, bound |-> 0, used |-> <<>>]

\* _connect succeeded: self.proxmox is a new ProxmoxAPI object
Connected(r) == [r EXCEPT !.proxmox = TRUE, !.session = @ + 1]

\* `api_call_func(*args, **kwargs)`: the bound method the caller passed in
SessionOfCall(r) == r.bound

Raise(r, e) == [r EXCEPT !.pc = "raised", !.raised = e]

\* a call arrives; the instance is connected, or its first connection had failed
DoRequest ==
    /\ request.pc = "idle"
    /\ \E connected \in BOOLEAN :
          request' = [request EXCEPT !.proxmox = connected,
                                     !.session = IF connected THEN 1 ELSE 0,
                                     !.bound = IF connected THEN 1 ELSE 0,
                                     !.pc = IF connected THEN "attempt" ELSE "connect"]
    /\ UNCHANGED <<natVars, watch, rebuild, raceVars>>

\* `if self.proxmox is None: self._connect()`
ConnectFirst ==
    /\ request.pc = "connect"
    /\ \E ok \in BOOLEAN :
          LET r == [request EXCEPT !.connects = @ + 1]
          IN  request' = IF ok
                         THEN [Connected(r) EXCEPT !.pc = "attempt"]
                         ELSE Raise(r, ConnectError)
    /\ UNCHANGED <<natVars, watch, rebuild, raceVars>>

\* what follows a failed call
AfterError(r, e) ==
    IF Reconnects(e, r.attempt) THEN [r EXCEPT !.pc = "reconnect"] ELSE Raise(r, e)

\* one pass of the loop: `return api_call_func(*args, **kwargs)` and its handlers
Attempt ==
    /\ request.pc = "attempt"
    /\ \/ request' = [request EXCEPT !.calls = Append(@, NoError),
                                       !.used = Append(@, SessionOfCall(request)),
                                       !.pc = "returned"]
       \/ \E e \in ApiErrors :
             request' = AfterError([request EXCEPT
                                        !.calls = Append(@, e),
                                        !.used = Append(@, SessionOfCall(request))],
                                   e)
    /\ UNCHANGED <<natVars, watch, rebuild, raceVars>>

\* a handler that goes on to the next attempt whatever the reconnection gave
AfterReconnectRetries(r, ok) ==
    [r EXCEPT !.proxmox = ok, !.attempt = @ + 1, !.pc = "attempt"]

\* what follows the reconnection inside the handler
AfterReconnect(r, ok) ==
    IF ok
    THEN [Connected(r) EXCEPT !.attempt = @ + 1, !.pc = "attempt"]
    ELSE Raise(r, ConnectError)

Reconnect ==
    /\ request.pc = "reconnect"
    /\ \E ok \in BOOLEAN :
          request' = AfterReconnect([request EXCEPT !.connects = @ + 1,
                                                    !.reconnects = Append(@, ok)], ok)
    /\ UNCHANGED <<natVars, watch, rebuild, raceVars>>

NextRequest == DoRequest \/ ConnectFirst \/ Attempt \/ Reconnect

-----------------------------------------------------------------------------
(* _wait_for_task and get_task_status *)

\* what one status fetch of the task gives: the fetch fails, or the task's
\* status and exit status come back
TaskAnswers ==
    [fetched : {TRUE}, status : {"running", "queued", "stopped", "error"},
     exitstatus : {"OK", "ERR"}]
        \cup {[fetched |-> FALSE, status |-> "", exitstatus |-> ""]}

\* a fetch whose failure is taken for a task still running
GetTaskStatusHopeful(answer) ==
    IF answer.fetched
    THEN [status |-> answer.status, exitstatus |-> answer.exitstatus]
    ELSE [status |-> "running", exitstatus |-> None]

\* get_task_status: a failed fetch is turned into a status of 'error'
GetTaskStatus(answer) ==
    IF answer.fetched
    THEN [status |-> answer.status, exitstatus |-> answer.exitstatus]
    ELSE [status |-> "error", exitstatus |-> None]

\* `while time.time() - start_time < timeout`
\* a loop that still polls when the deadline is reached exactly
BeforeDeadlineInclusive(now, start_time, timeout) == now - start_time <= timeout

BeforeDeadline(now, start_time, timeout) == now - start_time < timeout

IdleWatch ==
    [pc |-> "idle", now |-> 0, start_time |-> 0, timeout |-> 0, result |-> None,
     why |-> "", fetch_time |-> 0, fetching |-> 0, polls |-> 0, seen |-> <<>>]

WaitCall ==
    /\ watch.pc = "idle"
    /\ \E timeout \in 0..MaxTimeout :
          watch' = [watch EXCEPT !.pc = "check", !.timeout = timeout,
                                 !.start_time = watch.now]
    /\ UNCHANGED <<natVars, rebuild, request, raceVars>>

WaitCheck ==
    /\ watch.pc = "check"
    /\ watch' = IF BeforeDeadline(watch.now, watch.start_time, watch.timeout)
                THEN [watch EXCEPT !.pc = "poll"]
                ELSE [watch EXCEPT !.pc = "done", !.result = FALSE,
                                   !.why = "timeout"]
    /\ UNCHANGED <<natVars, rebuild, request, raceVars>>

WaitPoll ==
    /\ watch.pc = "poll"
    /\ \E answer \in TaskAnswers, took \in 0..MaxFetchTime :
          LET status == GetTaskStatus(answer)
              w == [watch EXCEPT !.now = @ + took, !.fetch_time = took,
                                 !.fetching = @ + took, !.polls = @ + 1,
                                 !.seen = Append(@, answer)]
          IN  watch' =
                IF status.status = "stopped"
                THEN [w EXCEPT !.pc = "done", !.result = (status.exitstatus = "OK"),
                               !.why = "stopped"]
                ELSE IF status.status = "error"
                THEN [w EXCEPT !.pc = "done", !.result = FALSE, !.why = "error"]
                ELSE [w EXCEPT !.pc = "sleep"]
    /\ UNCHANGED <<natVars, rebuild, request, raceVars>>

WaitSleep ==
    /\ watch.pc = "sleep"
    /\ watch' = [watch EXCEPT !.pc = "check", !.now = @ + PollInterval]
    /\ UNCHANGED <<natVars, rebuild, request, raceVars>>

NextWait == WaitCall \/ WaitCheck \/ WaitPoll \/ WaitSleep

-----------------------------------------------------------------------------
(* rebuild_container *)

\* error texts of a failed delete, word by word
DeleteMessages ==
    {<<"CT", "105", "does", "not", "exist">>,
     <<"Configuration", "Does", "Not", "Exist">>,
     <<"404", "Not", "Found">>,
     <<"container", "not", "found">>,
     <<"500", "storage", "busy">>}

\* str.lower(), word by word
LowerWord(w) ==
    CASE w = "Configuration" -> "configuration"
      [] w = "Does" -> "does"
      [] w = "Not" -> "not"
      [] w = "Exist" -> "exist"
      [] w = "Found" -> "found"
      [] w = "CT" -> "ct"
      [] OTHER -> w

LowerText(text) == [i \in 1..Len(text) |-> LowerWord(text[i])]

\* `needle in text`
Contains(text, needle) ==
    \E i \in 0..(Len(text) - Len(needle)) :
        \A j \in 1..Len(needle) : text[i + j] = needle[j]

\* delete_container: a failure carries a message and no raw_response
DeleteResult(ok, text, task) ==
    IF ok
    THEN [success |-> TRUE, message |-> <<>>, task_id |-> task, raw_response |-> None]
    ELSE [success |-> FALSE, message |-> text, task_id |-> None, raw_response |-> None]

\* the failed delete rebuild goes on after
BenignDeleteFailure(delete_result) ==
    \/ Contains(LowerText(delete_result.message), <<"does", "not", "exist">>)
    \/ (delete_result.raw_response # None
            /\ Contains(delete_result.raw_response, <<"404">>))

IdleRebuild ==
    [pc |-> "Idle", vmid_is_int |-> TRUE, calls |-> <<>>,
     delete_result |-> DeleteResult(TRUE, <<>>, None),
     create_task |-> None, result |-> [success |-> FALSE, message |-> "", task_id |-> None]]

\* a rebuild whose failures end in the phase of success
FailAsDone(r, message) ==
    [r EXCEPT !.pc = "Done",
              !.result = [success |-> FALSE, message |-> message, task_id |-> None]]

Fail(r, message) ==
    [r EXCEPT !.pc = "Failed",
              !.result = [success |-> FALSE, message |-> message, task_id |-> None]]

Called(r, call) == [r EXCEPT !.calls = Append(@, call)]

RebuildCall ==
    /\ rebuild.pc = "Idle"
    /\ \E vmid_is_int \in BOOLEAN :
          rebuild' = [rebuild EXCEPT !.pc = "CheckRunning", !.vmid_is_int = vmid_is_int]
    /\ UNCHANGED <<natVars, watch, request, raceVars>>

\* status_info['status'] == 'running'; a status fetch that raised is skipped
\* a rebuild that stops the container unless it is known to be stopped
IsRunningUnlessStopped(status) == status # "stopped"

IsRunning(status) == status = "running"

\* get_container_status: raises, or gives the status
RebuildCheckRunning ==
    /\ rebuild.pc = "CheckRunning"
    /\ \E status \in Statuses :
          rebuild' = [Called(rebuild, "status:" \o status) EXCEPT
                        !.pc = IF IsRunning(status) THEN "Stopping" ELSE "Deleting"]
    /\ UNCHANGED <<natVars, watch, request, raceVars>>

RebuildStop ==
    /\ rebuild.pc = "Stopping"
    /\ \E ok \in BOOLEAN :
          rebuild' = IF ok
                     THEN [Called(rebuild, "stop") EXCEPT !.pc = "WaitStop"]
                     ELSE Fail(Called(rebuild, "stop:false"), "stop")
    /\ UNCHANGED <<natVars, watch, request, raceVars>>

\* what follows the wait on the stop task
\* a rebuild that goes on to the delete whatever the wait returned
AfterStopWaitGoesOn(r, done) == [r EXCEPT !.pc = "Deleting"]

AfterStopWait(r, done) ==
    IF done THEN [r EXCEPT !.pc = "Deleting"] ELSE Fail(r, "stop_task")

RebuildWaitStop ==
    /\ rebuild.pc = "WaitStop"
    /\ \E done \in BOOLEAN :
          rebuild' = AfterStopWait(Called(rebuild, IF done THEN "wait_stop"
                                                   ELSE "wait_stop:false"),
                                   done)
    /\ UNCHANGED <<natVars, watch, request, raceVars>>

\* what follows the delete submission
\* a rebuild that goes on to the create after any failed delete
AfterDeleteLenient(r, delete_result) ==
    IF ~delete_result.success
    THEN [r EXCEPT !.pc = "Creating"]
    ELSE [r EXCEPT !.pc = "WaitDelete"]

AfterDelete(r, delete_result) ==
    IF ~delete_result.success
    THEN IF BenignDeleteFailure(delete_result)
         THEN [r EXCEPT !.pc = "Creating"]
         ELSE Fail(r, "delete")
    ELSE [r EXCEPT !.pc = "WaitDelete"]

RebuildDelete ==
    /\ rebuild.pc = "Deleting"
    /\ \E ok \in BOOLEAN, text \in DeleteMessages :
          LET delete_result == DeleteResult(ok, text, "UPID:delete")
              r == [Called(rebuild, "delete") EXCEPT !.delete_result = delete_result]
          IN  /\ ok => text = CHOOSE t \in DeleteMessages : TRUE
              /\ rebuild' = AfterDelete(r, delete_result)
    /\ UNCHANGED <<natVars, watch, request, raceVars>>

\* what follows the wait on the delete task
\* a rebuild that gives up when the delete task failed or timed out
AfterDeleteWaitStrict(r, done) ==
    IF done THEN [r EXCEPT !.pc = "Creating"] ELSE Fail(r, "delete_task")

AfterDeleteWait(r, done) == [r EXCEPT !.pc = "Creating"]

\* the wait on the delete task; when it fails the task status is fetched once
\* more and logged, and the rebuild goes on
RebuildWaitDelete ==
    /\ rebuild.pc = "WaitDelete"
    /\ \E done \in BOOLEAN, answer \in TaskAnswers :
          /\ done => answer = CHOOSE a \in TaskAnswers : TRUE
          /\ rebuild' = AfterDeleteWait(
                            IF done
                            THEN Called(rebuild, "wait_delete")
                            ELSE Called(Called(rebuild, "wait_delete:false"),
                                        "task_status:" \o GetTaskStatus(answer).status),
                            done)
    /\ UNCHANGED <<natVars, watch, request, raceVars>>

\* int(vmid) raises for a vmid that is no number: the outer handler answers
\* what rebuild returns after the create submission
\* a rebuild that reports a failed create as a failure of the delete
AfterCreateUnmarked(r, ok, task) ==
    IF ok
    THEN [r EXCEPT !.pc = "Done",
                   !.create_task = task,
                   !.result = [success |-> TRUE, message |-> "rebuild_started",
                               task_id |-> task]]
    ELSE Fail(r, "delete")

AfterCreate(r, ok, task) ==
    IF ok
    THEN [r EXCEPT !.pc = "Done",
                   !.create_task = task,
                   !.result = [success |-> TRUE, message |-> "rebuild_started",
                               task_id |-> task]]
    ELSE Fail(r, "create")

RebuildCreate ==
    /\ rebuild.pc = "Creating"
    /\ \E ok \in BOOLEAN :
          rebuild' =
            IF ~rebuild.vmid_is_int
            THEN Fail(rebuild, "exception")
            ELSE AfterCreate(Called(rebuild, "create"), ok, "UPID:create")
    /\ UNCHANGED <<natVars, watch, request, raceVars>>

NextRebuild ==
    \/ RebuildCall \/ RebuildCheckRunning \/ RebuildStop \/ RebuildWaitStop
    \/ RebuildDelete \/ RebuildWaitDelete \/ RebuildCreate

-----------------------------------------------------------------------------
(* The reconciler as a state machine: operations run to completion, one at a time *)

NatInit ==
    /\ rules = {}
    /\ nextId = 1
    /\ live = <<>>
    /\ ops = 0

Commit(o) ==
    /\ ops < MaxOps
    /\ ops' = ops + 1
    /\ rules' = o.rules
    /\ nextId' = o.nextId
    /\ live' = o.live

\* The calls of one operation that differ in an answer the operation reads: an
\* answer it never asks for is left at its quiet value.
QuietCreate == [ip |-> None, status |-> "running", fault |-> NoFault, dbFailAt |-> 0]

CreateCalls(rows, requests, addresses) ==
    {c \in requests \X CreateEnvs :
        /\ c[2].ip \in addresses \cup {None}
        /\ CheckHostPortConflict(rows, c[1].host_port, c[1].protocol, 0)
                => c[2] = QuietCreate
        /\ (c[2].ip = None \/ c[2].status # "running")
                => (c[2].fault = NoFault /\ c[2].dbFailAt = 0)
        /\ c[2].dbFailAt = 1 => c[2].fault = NoFault
        /\ c[2].dbFailAt = 2 => c[2].fault # NoFault}

Create(requests, addresses) ==
    \E c \in CreateCalls(rules, requests, addresses) :
        Commit(CreateNatRule(rules, nextId, live, c[1], c[2]))

QuietUpdate == [ip |-> None, fault |-> NoFault, dbFailAt |-> 0]
NoUpdate ==
    [host_port |-> Unset, protocol |-> Unset, container_port |-> Unset,
     enabled |-> Unset, description |-> Unset]

UpdateEnvsFor(rows, rule_id, update_data, addresses) ==
    LET db_rule == GetNatRuleById(rows, rule_id)
        retracts == Retracts(db_rule, update_data)
        applies == Applies(db_rule, update_data)
        looks_up == LooksUp(db_rule, update_data)
    IN  IF db_rule = NoRule \/ UpdateConflict(rows, db_rule, update_data)
        THEN {QuietUpdate}
        ELSE {env \in [ip : IF looks_up THEN addresses \cup {None} ELSE {None},
                       fault : [list : {FALSE},
                                add : IF applies
                                      THEN {{}, {Get(update_data, "host_port",
                                                     db_rule.host_port)}}
                                      ELSE {{}},
                                del : IF retracts THEN BOOLEAN ELSE {FALSE}],
                       dbFailAt : 0..(IF applies THEN 3 ELSE 1)] :
                /\ env.dbFailAt = 2 => looks_up
                /\ (env.dbFailAt \in {1, 2} \/ (looks_up /\ env.ip = None))
                        => env.fault.add = {}
                /\ env.dbFailAt = 3 => env.fault.add # {}}

UpdateOf(requests, addresses) ==
    \E rule_id \in 1..nextId :
        \E update_data \in (IF GetNatRuleById(rules, rule_id) = NoRule
                            THEN {NoUpdate} ELSE requests) :
            \E env \in UpdateEnvsFor(rules, rule_id, update_data, addresses) :
                Commit(UpdateNatRule(rules, nextId, live, rule_id, update_data, env))

Update(addresses) == UpdateOf(UpdateRequests, addresses)

\* rule ids asked for: those handed out so far, and one that names no row
DeleteCalls(rows, nid) ==
    {c \in (1..nid) \X DeleteEnvs :
        /\ ~GetNatRuleById(rows, c[1]).enabled => ~c[2].fault.del
        /\ GetNatRuleById(rows, c[1]) = NoRule => c[2].dbFailAt = 0}

Delete ==
    \E c \in DeleteCalls(rules, nextId) :
        Commit(DeleteNatRule(rules, nextId, live, c[1], c[2]))

\* the answers a resync reads: the list failing ends the run; an address is
\* looked up only for a container with an enabled rule; a delete is run only
\* when tagged lines are listed, an add only when a rule is enabled
ResyncCalls(rows, chain, vmids, addresses) ==
    {env \in ResyncEnvs :
        /\ \A v \in Vmids : env.ip[v] \in addresses \cup {None}
        /\ \A v \in Vmids :
              (v \notin vmids \/ ~\E r \in rows : r.enabled /\ r.vmid = v)
                  => env.ip[v] = None
        /\ env.fault.list => (env.fault.add = {} /\ ~env.fault.del /\ env.dbFailAt = 0)
        /\ TaggedLines(chain) = <<>> => ~env.fault.del
        /\ (~\E r \in rows : r.enabled) => env.fault.add = {}}

Resync(vmids, addresses) ==
    \E env \in ResyncCalls(rules, live, vmids, addresses) :
        Commit(ResyncAllIptablesRules(rules, nextId, live, env))

\* Two bounded universes of requests and answers. Main: one container with one
\* address, every spelling of the protocol, rules with and without description.
\* Drift: two containers whose addresses change, one rule each.
\* update requests that also move the host port and the container port
WideUpdateRequests ==
    UpdateRequests
        \cup [host_port : Opt({8081}), protocol : Opt({"udp", "TCP"}),
              container_port : Opt({81}), enabled : Opt(BOOLEAN),
              description : {Unset}]

\* the updates run as steps: they move the host port, change the protocol,
\* enable and disable
MoveRequests ==
    [host_port : Opt({8081}), protocol : Opt({"udp"}), container_port : {Unset},
     enabled : Opt(BOOLEAN), description : {Unset}]

\* creations that seed the table for the updates: described rules, tcp and udp
SeedRequests ==
    {r \in CreateRequests :
        r.vmid = 105 /\ r.protocol \in {"tcp", "udp"} /\ r.description # <<>>}

MainVmids == {105}
MainAddresses == {"10.0.0.5"}
MainRequests == {r \in CreateRequests : r.vmid \in MainVmids}

DriftVmids == Vmids
DriftAddresses == Addresses
DriftRequests ==
    {r \in CreateRequests :
        \/ r.vmid = 105 /\ r.protocol = "tcp" /\ r.description # <<>>
        \/ r.vmid = 106 /\ r.protocol = "udp" /\ r.description = <<>>}

-----------------------------------------------------------------------------
(* Operations of the reconciler running concurrently: each request has its  *)
(* own database session and runs the statements of its operation in order;  *)
(* a step is one statement that reads or writes the table or the chain.     *)

Procs == {1, 2}

\* the requests that compete: one host port, one protocol in two spellings
RaceRequests ==
    {r \in CreateRequests :
        r.vmid = 105 /\ r.protocol \in {"tcp", "TCP"} /\ r.description # <<>>}

NoRequest ==
    [vmid |-> 0, host_port |-> 0, container_port |-> 0, protocol |-> "",
     description |-> <<>>]

\* one call of create_nat_rule: pc is the statement it runs next, added tells
\* whether its iptables -A was run and how it ended
IdleCreate ==
    [pc |-> "idle", req |-> NoRequest, container_ip |-> None, db_rule |-> NoRule,
     added |-> "no", msg |-> ""]

Proc(p, c) == creating' = [creating EXCEPT ![p] = c]

Return(c, msg) == [c EXCEPT !.pc = "returned", !.msg = msg]

RaceCall(p) ==
    /\ creating[p].pc = "idle"
    /\ \E req \in RaceRequests :
          Proc(p, [creating[p] EXCEPT !.pc = "check", !.req = req])
    /\ UNCHANGED <<natVars, syncing, watch, rebuild, request>>

\* check_host_port_conflict reads the committed rows
RaceCheck(p) ==
    LET c == creating[p]
    IN  /\ c.pc = "check"
        /\ Proc(p, IF CheckHostPortConflict(rules, c.req.host_port, c.req.protocol, 0)
                   THEN Return(c, "conflict")
                   ELSE [c EXCEPT !.pc = "resolve"])
        /\ UNCHANGED <<natVars, syncing, watch, rebuild, request>>

\* get_container_ip and get_container_status
RaceResolve(p) ==
    LET c == creating[p]
    IN  /\ c.pc = "resolve"
        /\ \E ip \in MainAddresses \cup {None}, status \in Statuses :
              /\ Unresolvable(ip) => status = "running"
              /\ Proc(p, IF Unresolvable(ip) THEN Return(c, "no_ip")
                         ELSE IF status = "raise"
                         THEN [c EXCEPT !.pc = "raised", !.msg = "status_exception"]
                         ELSE IF NotRunning(status) THEN Return(c, "not_running")
                         ELSE [c EXCEPT !.pc = "insert", !.container_ip = ip])
        /\ UNCHANGED <<natVars, syncing, watch, rebuild, request>>

\* db.add, db.commit: the table refuses a second enabled row for the pair
RaceInsert(p) ==
    LET c == creating[p]
        db_rule == [id |-> nextId, node |-> Node, vmid |-> c.req.vmid,
                    host_port |-> c.req.host_port,
                    container_port |-> c.req.container_port,
                    protocol |-> Lower(c.req.protocol),
                    container_ip_at_creation |-> c.container_ip,
                    description |-> c.req.description,
                    enabled |-> TRUE]
    IN  /\ c.pc = "insert"
        /\ IF IntegrityError(rules \cup {db_rule})
           THEN /\ Proc(p, Return(c, "integrity"))
                /\ UNCHANGED <<rules, nextId>>
           ELSE /\ Proc(p, [c EXCEPT !.pc = "apply", !.db_rule = db_rule])
                /\ rules' = rules \cup {db_rule}
                /\ nextId' = nextId + 1
        /\ UNCHANGED <<live, ops, syncing, watch, rebuild, request>>

\* _apply_iptables_rule(db_rule, add=True)
RaceApply(p) ==
    LET c == creating[p]
    IN  /\ c.pc = "apply"
        /\ \E fault \in {f \in Faults : ~f.list /\ ~f.del} :
              LET a == ApplyIptablesRule(c.db_rule, TRUE, live, fault)
              IN  /\ live' = a.chain
                  /\ Proc(p, IF a.ok
                             THEN [Return(c, "created") EXCEPT !.added = "yes"]
                             ELSE [c EXCEPT !.pc = "disable", !.added = "failed"])
        /\ UNCHANGED <<rules, nextId, ops, syncing, watch, rebuild, request>>

\* db_rule.enabled = False, db.commit
RaceDisable(p) ==
    LET c == creating[p]
        current == GetNatRuleById(rules, c.db_rule.id)
    IN  /\ c.pc = "disable"
        /\ rules' = (rules \ {current}) \cup {DisableRule(current)}
        /\ Proc(p, Return(c, "apply_failed_disabled"))
        /\ UNCHANGED <<nextId, live, ops, syncing, watch, rebuild, request>>

CreateStep(p) ==
    \/ RaceCall(p) \/ RaceCheck(p) \/ RaceResolve(p)
    \/ RaceInsert(p) \/ RaceApply(p) \/ RaceDisable(p)

\* one call of resync_all_iptables_rules: lines are the delete commands still
\* to run, todo the enabled rows read and not yet applied, pending the rows
\* its session has changed and not yet committed
IdleSync ==
    [pc |-> "idle", lines |-> <<>>, todo |-> <<>>, pending |-> {}, msg |-> ""]

\* iptables -t nat -S PREROUTING
SyncList ==
    /\ syncing.pc = "idle"
    /\ \E ok \in BOOLEAN :
          syncing' = IF ok
                     THEN [syncing EXCEPT !.pc = "flush",
                                          !.lines = Reverse(TaggedLines(live))]
                     ELSE [syncing EXCEPT !.pc = "returned", !.msg = "list_failed"]
    /\ UNCHANGED <<natVars, creating, watch, rebuild, request>>

\* one iptables -D of the flush loop
SyncFlush ==
    /\ syncing.pc = "flush"
    /\ syncing.lines # <<>>
    /\ \E del \in BOOLEAN :
          live' = RunDelete(live, Head(syncing.lines),
                            [list |-> FALSE, add |-> {}, del |-> del]).chain
    /\ syncing' = [syncing EXCEPT !.lines = Tail(@)]
    /\ UNCHANGED <<rules, nextId, ops, creating, watch, rebuild, request>>

\* the query for the enabled rows
SyncQuery ==
    /\ syncing.pc = "flush"
    /\ syncing.lines = <<>>
    /\ syncing' = [syncing EXCEPT !.pc = "apply",
                                  !.todo = SortById({r \in rules : r.enabled})]
    /\ UNCHANGED <<natVars, creating, watch, rebuild, request>>

\* one round of the apply loop: resolve, repair, apply, disable on error
SyncApply ==
    /\ syncing.pc = "apply"
    /\ syncing.todo # <<>>
    /\ \E container_ip \in MainAddresses \cup {None},
          fault \in {f \in Faults : ~f.list /\ ~f.del} :
          LET db_rule == Head(syncing.todo)
              repaired == Repair(db_rule, container_ip)
              a == ApplyIptablesRule(RuleToApply(db_rule, container_ip), TRUE,
                                     live, fault)
          IN  /\ Unresolvable(container_ip) => fault = NoFault
              /\ IF Unresolvable(container_ip)
                 THEN /\ syncing' = [syncing EXCEPT
                                        !.todo = Tail(@),
                                        !.pending = @ \cup {DisableRule(db_rule)}]
                      /\ live' = live
                 ELSE /\ syncing' = [syncing EXCEPT
                                        !.todo = Tail(@),
                                        !.pending =
                                            IF a.ok
                                            THEN @ \cup ({repaired} \ {db_rule})
                                            ELSE @ \cup {DisableRule(repaired)}]
                      /\ live' = a.chain
    /\ UNCHANGED <<rules, nextId, ops, creating, watch, rebuild, request>>

\* db.commit: the rows the session changed are written by id
SyncCommit ==
    /\ syncing.pc = "apply"
    /\ syncing.todo = <<>>
    /\ rules' = {r \in rules : \A q \in syncing.pending : q.id # r.id}
                    \cup {q \in syncing.pending : GetNatRuleById(rules, q.id) # NoRule}
    /\ syncing' = [syncing EXCEPT !.pc = "returned", !.msg = "resynced"]
    /\ UNCHANGED <<nextId, live, ops, creating, watch, rebuild, request>>

SyncStep == SyncList \/ SyncFlush \/ SyncQuery \/ SyncApply \/ SyncCommit

RaceInit == creating = [p \in Procs |-> IdleCreate] /\ syncing = IdleSync

Init ==
    /\ NatInit /\ watch = IdleWatch /\ rebuild = IdleRebuild /\ request = IdleRequest
    /\ RaceInit

Next ==
    /\ \/ Create(MainRequests, MainAddresses)
       \/ Update(MainAddresses)
       \/ Delete
       \/ Resync(MainVmids, MainAddresses)
    /\ UNCHANGED <<watch, rebuild, request, raceVars>>

Spec == Init /\ [][Next]_vars

NextDrift ==
    /\ \/ Create(DriftRequests, DriftAddresses)
       \/ Delete
       \/ Resync(DriftVmids, DriftAddresses)
    /\ UNCHANGED <<watch, rebuild, request, raceVars>>

SpecDrift == Init /\ [][NextDrift]_vars

NextUpdate ==
    /\ \/ Create(SeedRequests, MainAddresses)
       \/ UpdateOf(MoveRequests, MainAddresses)
    /\ UNCHANGED <<watch, rebuild, request, raceVars>>

SpecUpdate == Init /\ [][NextUpdate]_vars

SpecWait == Init /\ [][NextWait]_vars

SpecRebuild == Init /\ [][NextRebuild]_vars

\* the rebuild runs in its caller's thread: each of its calls returns, a wait
\* at its timeout at the latest, so a step that can be taken is taken
SpecRebuildFair == Init /\ [][NextRebuild]_vars /\ WF_vars(NextRebuild)

SpecRequest == Init /\ [][NextRequest]_vars

\* two create_nat_rule calls, their steps interleaved
NextRace == \E p \in Procs : CreateStep(p)

SpecRace == Init /\ [][NextRace]_vars

\* a resync beside create_nat_rule calls, their steps interleaved
NextSyncRace == SyncStep \/ \E p \in Procs : CreateStep(p)

SpecSyncRace == Init /\ [][NextSyncRace]_vars

-----------------------------------------------------------------------------
(* Properties of the reconciler *)

\* the packet-filter invocations among the calls of an operation
FilterCalls(events) == SelectSeq(events, LAMBDA e : e.kind = "iptables")
Lookups(events) == SelectSeq(events, LAMBDA e : e.kind = "get_container_ip")

\* an enabled rule claims (host_port, protocol), protocols compared as stored
Claimed(rows, host_port, protocol) ==
    \E r \in rows :
        r.enabled /\ r.host_port = host_port /\ r.protocol = Lower(protocol)

RowById(rows, id) == GetNatRuleById(rows, id)

MainCreates == CreateCalls(rules, MainRequests, MainAddresses)
CreateOutcome(c) == CreateNatRule(rules, nextId, live, c[1], c[2])

\* C1: in every state reached by create, update, delete and resync calls, no
\* two distinct enabled rules share the same (host_port, protocol).
C1_ConflictInvariant ==
    \A r1, r2 \in rules :
        (r1.enabled /\ r2.enabled /\ r1.host_port = r2.host_port
            /\ r1.protocol = r2.protocol) => r1.id = r2.id

\* C1 witness: a disabled rule and an enabled rule sit on the same pair, and
\* re-enabling the disabled one through update is turned down at the commit.
C1_Witness ==
    \E r1, r2 \in rules :
        /\ ~r1.enabled /\ r2.enabled
        /\ r1.host_port = r2.host_port /\ r1.protocol = r2.protocol
        /\ UpdateNatRule(rules, nextId, live, r1.id,
                         [NoUpdate EXCEPT !.enabled = <<TRUE>>], QuietUpdate).msg
                = "integrity"

\* C2 as claimed: a create for a pair an enabled rule already claims returns no
\* rule, persists no row, looks up no container address and invokes the packet
\* filter zero times.
C2_ConflictRejectedEarly ==
    ops < MaxOps =>
        \A c \in MainCreates :
            Claimed(rules, c[1].host_port, c[1].protocol) =>
                LET o == CreateOutcome(c)
                IN  /\ o.how = "returned" /\ o.rule = NoRule
                    /\ o.rules = rules
                    /\ Lookups(o.events) = <<>>
                    /\ FilterCalls(o.events) = <<>>

\* C8: a create for a running container with a resolvable address and a free
\* pair, the add and the insert succeeding, invokes the packet filter exactly
\* once, with the add that redirects protocol/host_port to
\* resolved_address:container_port, and persists exactly one new row, enabled,
\* whose container_ip_at_creation is the resolved address.
C8_CreateSuccess ==
    ops < MaxOps =>
        \A c \in MainCreates :
            LET req == c[1]
                env == c[2]
                o == CreateOutcome(c)
                row == RowById(o.rules, nextId)
            IN  (/\ env.ip # None /\ env.status = "running"
                 /\ ~Claimed(rules, req.host_port, req.protocol)
                 /\ req.host_port \notin env.fault.add
                 /\ env.dbFailAt = 0)
                =>
                (/\ Len(FilterCalls(o.events)) = 1
                 /\ LET cmd == FilterCalls(o.events)[1]
                    IN  /\ cmd.action = "-A" /\ cmd.ok
                        /\ cmd.spec.protocol = Lower(req.protocol)
                        /\ cmd.spec.dport = req.host_port
                        /\ cmd.spec.to_ip = env.ip
                        /\ cmd.spec.to_port = req.container_port
                        /\ o.live = Append(live, cmd.spec)
                 /\ o.rules \ rules = {row}
                 /\ rules \ o.rules = {}
                 /\ row.enabled
                 /\ row.container_ip_at_creation = env.ip
                 /\ row.host_port = req.host_port
                 /\ row.container_port = req.container_port
                 /\ row.protocol = Lower(req.protocol)
                 /\ o.rule = row)

\* C8 witness: such a create is called and reports success
C8_Witness ==
    /\ ops < MaxOps
    /\ \E c \in MainCreates :
          /\ c[2].ip # None /\ c[2].status = "running" /\ c[2].dbFailAt = 0
          /\ c[1].protocol = "TCP"
          /\ rules # {}
          /\ CreateOutcome(c).msg = "created"

\* C9: in a create the row is committed before the add is issued; when the add
\* fails the row is not deleted: it stays in the RuleStore, with enabled = false
\* once the commit that disables it succeeds, and is returned with a message
\* that reports the filter failure.
C9_CreateApplyFailureKeepsRow ==
    ops < MaxOps =>
        \A c \in MainCreates :
            LET o == CreateOutcome(c)
                ev == o.events
                row == RowById(o.rules, nextId)
            IN  /\ \A i \in 1..Len(ev) :
                      (ev[i].kind = "iptables" /\ ev[i].action = "-A") =>
                          \E j \in 1..(i - 1) : ev[j] = DbCommit(TRUE)
                /\ (\E i \in 1..Len(ev) : ev[i].kind = "iptables" /\ ~ev[i].ok) =>
                      /\ row # NoRule
                      /\ o.rule = row
                      /\ o.msg \in {"apply_failed_disabled",
                                    "apply_failed_disable_failed"}
                      /\ c[2].dbFailAt # 2 =>
                            (~row.enabled /\ o.msg = "apply_failed_disabled")

\* C9 witness: a create whose add fails
C9_Witness ==
    /\ ops < MaxOps
    /\ rules # {}
    /\ \E c \in MainCreates :
          /\ CreateOutcome(c).msg = "apply_failed_disabled"
          /\ ~RowById(CreateOutcome(c).rules, nextId).enabled

\* C10: a create for a container without a resolvable address, or whose status
\* is not running, returns no rule, persists no row and invokes the packet
\* filter zero times.
C10_CreateUnresolvable ==
    ops < MaxOps =>
        \A c \in MainCreates :
            LET env == c[2]
                o == CreateOutcome(c)
            IN  (env.ip = None \/ env.status = "stopped") =>
                    /\ o.how = "returned" /\ o.rule = NoRule
                    /\ o.rules = rules /\ o.nextId = nextId
                    /\ FilterCalls(o.events) = <<>>
                    /\ o.live = live

\* C10 witness: a create on a free pair that stops at the address or at the status
C10_Witness ==
    /\ ops < MaxOps
    /\ rules # {}
    /\ \E c1, c2 \in MainCreates :
          /\ CreateOutcome(c1).msg = "no_ip"
          /\ CreateOutcome(c2).msg = "not_running"

\* the answers of one resync in the Drift universe
DriftResyncs == ResyncCalls(rules, live, DriftVmids, DriftAddresses)

ResyncOutcome(env) == ResyncAllIptablesRules(rules, nextId, live, env)

\* a second resync right after the first, with the same answers
SecondResync(env) ==
    LET o1 == ResyncOutcome(env)
    IN  ResyncAllIptablesRules(o1.rules, o1.nextId, o1.live, env)

\* the live rules that carry the ownership tag, as a set
TaggedSet(chain) == Range(TaggedLines(chain))

\* the adds a resync issued for a rule: those on its (host_port, protocol)
AddsFor(events, rule) ==
    SelectSeq(events, LAMBDA e :
        /\ e.kind = "iptables" /\ e.action = "-A"
        /\ e.spec.dport = rule.host_port /\ e.spec.protocol = rule.protocol)

SameReport(o1, o2) ==
    /\ o1.ok = o2.ok
    /\ o1.stats.applied_rules = o2.stats.applied_rules
    /\ o1.stats.failed_to_apply_rules = o2.stats.failed_to_apply_rules
    /\ o1.stats.rules_disabled_due_to_error_ids
            = o2.stats.rules_disabled_due_to_error_ids
    /\ TaggedSet(o1.live) = TaggedSet(o2.live)

C5_DriftRepair ==
    ops < MaxOps =>
        \A env \in DriftResyncs :
            \A r \in rules :
                LET o == ResyncOutcome(env)
                    new == env.ip[r.vmid]
                    adds == AddsFor(o.events, r)
                IN  (r.enabled /\ ~env.fault.list /\ new # None
                        /\ new # r.container_ip_at_creation)
                    =>
                    /\ Len(adds) = 1
                    /\ adds[1].spec.to_ip = new
                    /\ adds[1].spec.to_port = r.container_port
                    /\ o.ok => RowById(o.rules, r.id).container_ip_at_creation = new

\* C5 witness: a resync meets a drifted rule and applies it
C5_Witness ==
    /\ ops < MaxOps
    /\ \E env \in DriftResyncs, r \in rules :
          /\ r.enabled /\ env.ip[r.vmid] \notin {None, r.container_ip_at_creation}
          /\ ResyncOutcome(env).ok
          /\ ResyncOutcome(env).stats.applied_rules >= 1

\* C6: for every enabled rule whose container address cannot be resolved, the
\* resync issues no add for it, goes on to the other enabled rules, and, when
\* it completes, leaves the rule with enabled = false and reports its id
\* among the rules disabled due to error; the resync itself does not fail.
C6_DisableOnUnresolvable ==
    ops < MaxOps =>
        \A env \in DriftResyncs :
            \A r \in rules :
                LET o == ResyncOutcome(env)
                IN  (r.enabled /\ ~env.fault.list /\ env.ip[r.vmid] = None)
                    =>
                    /\ AddsFor(o.events, r) = <<>>
                    /\ o.how = "returned"
                    /\ env.dbFailAt = 0 => o.ok
                    /\ o.ok =>
                          /\ ~RowById(o.rules, r.id).enabled
                          /\ r.id \in o.stats.rules_disabled_due_to_error_ids
                    /\ \A q \in rules :
                          q.enabled =>
                              /\ \E i \in 1..Len(o.events) :
                                    o.events[i] = Lookup(q.vmid, env.ip[q.vmid])
                              /\ env.ip[q.vmid] # None => Len(AddsFor(o.events, q)) = 1

\* C6 witness: one rule is unresolvable, another is resolved and applied
C6_Witness ==
    /\ ops < MaxOps
    /\ \E env \in DriftResyncs, r, q \in rules :
          /\ r.enabled /\ q.enabled
          /\ env.ip[r.vmid] = None /\ env.ip[q.vmid] # None
          /\ ResyncOutcome(env).ok
          /\ ResyncOutcome(env).stats.applied_rules = 1
          /\ ResyncOutcome(env).stats.rules_disabled_due_to_error_ids = {r.id}

-----------------------------------------------------------------------------
(* Properties of update *)

UpdateOutcome(id, u, env) == UpdateNatRule(rules, nextId, live, id, u, env)

\* the update gives a networking field a value other than the stored one
NetworkingChanged(row, u) ==
    \/ Get(u, "host_port", row.host_port) # row.host_port
    \/ Lower(Get(u, "protocol", row.protocol)) # row.protocol
    \/ Get(u, "container_port", row.container_port) # row.container_port

Rejected(o) == o.msg \in {"not_found", "conflict"}

\* the first place of an event in a sequence, 0 when it is not there
RECURSIVE First(_, _, _)
First(events, Test(_), i) ==
    IF i > Len(events) THEN 0
    ELSE IF Test(events[i]) THEN i
    ELSE First(events, Test, i + 1)

IsRetract(e) == e.kind = "iptables" /\ e.action = "-D"
IsApply(e) == e.kind = "iptables" /\ e.action = "-A"
IsCommit(e) == e.kind = "commit"
IsLookup(e) == e.kind = "get_container_ip"

\* C17: an update of an enabled rule that disables it or changes host_port,
\* protocol or container_port, and is not rejected by the conflict check,
\* retracts the old entry first, before any commit and any apply, exactly once,
\* with a command built from the values stored before the update.
C17_RetractOldFirst ==
    ops < MaxOps =>
        \A row \in rules : \A u \in WideUpdateRequests :
            \A env \in UpdateEnvsFor(rules, row.id, u, MainAddresses) :
                LET o == UpdateOutcome(row.id, u, env)
                    disables == ~Get(u, "enabled", row.enabled)
                IN  (row.enabled /\ (disables \/ NetworkingChanged(row, u))
                        /\ ~Rejected(o))
                    =>
                    /\ Len(o.events) >= 2
                    /\ IsRetract(o.events[1])
                    /\ o.events[1].spec = IptablesSpec(row)
                    /\ IsCommit(o.events[2])
                    /\ Len(SelectSeq(o.events, IsRetract)) = 1

\* an update that moves an enabled rule to another host port and container
\* port: the old entry is retracted and the new one applied
C17_Witness ==
    /\ ops < MaxOps
    /\ \E row \in rules : \E u \in WideUpdateRequests :
          \E env \in UpdateEnvsFor(rules, row.id, u, MainAddresses) :
              LET o == UpdateOutcome(row.id, u, env)
              IN  /\ row.enabled
                  /\ u.host_port = <<8081>> /\ u.container_port = <<81>>
                  /\ o.msg = "updated"
                  /\ IsRetract(o.events[1]) /\ o.events[1].ok
                  /\ o.events[1].spec.dport = 8080
                  /\ First(o.events, IsApply, 1) > 2
                  /\ Len(o.live) = Len(live)

\* the update is to leave the rule enabled, with changed networking fields or
\* newly enabled
ToBeApplied(row, u) ==
    Get(u, "enabled", row.enabled) /\ (NetworkingChanged(row, u) \/ ~row.enabled)

Persisted(o) == o.how = "returned" /\ o.rule # NoRule

\* C18: an update that persists its changes and is to leave the rule enabled,
\* with changed networking fields or newly enabled, looks the container's
\* address up before it applies: the applied entry targets the address the
\* container has now, and when the container has none the rule is disabled
\* and nothing is applied.
C18_ReResolveBeforeApply ==
    ops < MaxOps =>
        \A row \in rules : \A u \in WideUpdateRequests :
            \A env \in UpdateEnvsFor(rules, row.id, u, Addresses) :
                \A ip \in Addresses \cup {None} :
                    LET o == UpdateOutcome(row.id, u, [env EXCEPT !.ip = ip])
                        looked == First(o.events, IsLookup, 1)
                        applied == First(o.events, IsApply, 1)
                    IN  (/\ env.ip = ip \/ ~LooksUp(row, u)
                         /\ ToBeApplied(row, u)
                         /\ Persisted(o))
                        =>
                        /\ looked > 0
                        /\ ip = None => (applied = 0 /\ ~o.rule.enabled)
                        /\ ip # None =>
                              /\ applied > looked
                              /\ o.events[applied].spec.to_ip = ip

TellsRetractFailed(msg) ==
    msg \in {"updated_retract_failed", "updated_apply_failed_disabled_retract_failed"}

TellsApplyFailed(msg) ==
    msg \in {"updated_apply_failed_disabled",
             "updated_apply_failed_disabled_retract_failed"}

\* C19: the message of an update that persists its changes and returns the
\* rule tells of a failed retraction exactly when the retraction failed, and
\* of a failed apply exactly when the apply failed, on every return path.
C19_MessageTellsFailures ==
    ops < MaxOps =>
        \A row \in rules : \A u \in WideUpdateRequests :
            \A env \in UpdateEnvsFor(rules, row.id, u, MainAddresses) :
                LET o == UpdateOutcome(row.id, u, env)
                    retracted == First(o.events, IsRetract, 1)
                    applied == First(o.events, IsApply, 1)
                IN  Persisted(o) =>
                        /\ TellsRetractFailed(o.msg)
                              <=> (retracted > 0 /\ ~o.events[retracted].ok)
                        /\ TellsApplyFailed(o.msg)
                              <=> (applied > 0 /\ ~o.events[applied].ok)

\* C20: an update rejected for a duplicate (host_port, protocol), by the
\* conflict check or by the integrity violation at commit, has run no
\* packet-filter command and leaves the chain and the table as they were.
C20_RejectedUpdateChangesNothing ==
    ops < MaxOps =>
        \A row \in rules : \A u \in WideUpdateRequests :
            \A env \in UpdateEnvsFor(rules, row.id, u, MainAddresses) :
                LET o == UpdateOutcome(row.id, u, env)
                IN  o.msg \in {"conflict", "integrity"} =>
                        /\ o.rule = NoRule
                        /\ FilterCalls(o.events) = <<>>
                        /\ o.live = live
                        /\ o.rules = rules

\* a state in which one update is rejected by the conflict check and another
\* by the integrity violation at commit
C20_Witness ==
    /\ ops < MaxOps
    /\ \E r1, r2 \in rules : \E u1, u2 \in WideUpdateRequests :
          /\ r1.enabled /\ u1.protocol # Unset
          /\ UpdateOutcome(r1.id, u1, QuietUpdate).msg = "conflict"
          /\ ~r2.enabled /\ u2.enabled = <<TRUE>>
          /\ UpdateOutcome(r2.id, u2, QuietUpdate).msg = "integrity"

-----------------------------------------------------------------------------
(* Properties of delete *)

DeleteOutcome(c) == DeleteNatRule(rules, nextId, live, c[1], c[2])

\* C16: a delete of an existing rule whose commit succeeds attempts exactly one
\* retraction, built from the row, when the rule is enabled and none otherwise;
\* whether or not the retraction succeeds the row is removed and the call
\* succeeds; the message tells of a failed retraction exactly when it failed.
C16_DeleteRemovesRow ==
    ops < MaxOps =>
        \A c \in DeleteCalls(rules, nextId) :
            LET o == DeleteOutcome(c)
                row == RowById(rules, c[1])
                calls == FilterCalls(o.events)
            IN  (row # NoRule /\ c[2].dbFailAt = 0) =>
                    /\ o.ok
                    /\ o.rules = rules \ {row}
                    /\ row.enabled =>
                          /\ Len(calls) = 1
                          /\ calls[1].action = "-D"
                          /\ calls[1].spec = IptablesSpec(row)
                          /\ o.msg = "deleted_retract_failed" <=> ~calls[1].ok
                          /\ calls[1].ok => Len(o.live) = Len(live) - 1
                          /\ ~calls[1].ok => o.live = live
                    /\ ~row.enabled =>
                          /\ calls = <<>>
                          /\ o.live = live
                          /\ o.msg # "deleted_retract_failed"

\* a delete of an enabled rule whose retraction fails and whose row goes all the same
C16_Witness ==
    /\ ops < MaxOps
    /\ \E c \in DeleteCalls(rules, nextId) :
          /\ RowById(rules, c[1]).enabled
          /\ c[2].fault.del
          /\ DeleteOutcome(c).ok
          /\ DeleteOutcome(c).msg = "deleted_retract_failed"
          /\ RowById(DeleteOutcome(c).rules, c[1]) = NoRule

-----------------------------------------------------------------------------
(* Properties of the resync, continued *)

\* a resync in which the listing, every deletion, every add and the commit succeed
CleanResyncs ==
    {env \in DriftResyncs :
        ~env.fault.list /\ ~env.fault.del /\ env.fault.add = {} /\ env.dbFailAt = 0}

\* the entries the enabled rows of a table ask for
Desired(rows) == {IptablesSpec(r) : r \in {q \in rows : q.enabled}}

\* C14: after a resync in which the listing, every deletion and every apply
\* succeed, the live entries are exactly the entries of the enabled rows,
\* whatever was live before.
C14_ResyncConverges ==
    ops < MaxOps =>
        \A env \in CleanResyncs :
            LET o == ResyncOutcome(env)
            IN  Range(o.live) = Desired(o.rules)

\* C15: every entry installed in the packet filter carries the ownership
\* comment: the owner tag and the id, node and vmid of a rule, whether or not
\* the rule has a description.
C15_EveryEntryTagged ==
    \A i \in 1..Len(live) :
        /\ live[i].comment.tag = OwnerTag
        /\ live[i].comment.rule_id \in 1..(nextId - 1)
        /\ live[i].comment.node = Node
        /\ live[i].comment.vmid \in Vmids

-----------------------------------------------------------------------------
(* Properties of the task wait *)

Elapsed == watch.now - watch.start_time

TimedOut == watch.pc = "done" /\ watch.why = "timeout"

\* C7: a wait whose task never reaches a terminal state returns false after
\* at most `timeout` time units, status fetches taking no time.
C7_WaitReturnsWithinTimeout ==
    (TimedOut /\ watch.fetching = 0) =>
        (watch.result = FALSE /\ Elapsed <= watch.timeout)

\* C7, with the bound the loop keeps: a wait whose task never reaches a
\* terminal state returns false, less than one poll interval plus the time of
\* its last status fetch after the timeout has passed.
C7_WaitReturnsWithinTimeoutPlusInterval ==
    TimedOut =>
        (watch.result = FALSE
            /\ Elapsed < watch.timeout + PollInterval + watch.fetch_time)

\* a wait with a timeout of 3 that polled at 0 and at 2 and returned at 4
C7_Witness ==
    /\ TimedOut
    /\ watch.result = FALSE
    /\ watch.fetching = 0
    /\ watch.timeout = 3
    /\ watch.polls = 2
    /\ Elapsed = 4

\* what ends a wait: a failed fetch, or a status of 'stopped' or 'error'
Terminal(answer) == ~answer.fetched \/ answer.status \in {"stopped", "error"}

Succeeded(answer) ==
    answer.fetched /\ answer.status = "stopped" /\ answer.exitstatus = "OK"

\* C13: a wait returns true exactly when its last poll saw 'stopped' with exit
\* status 'OK'; it returns false on the first poll that sees 'error', a failed
\* fetch or 'stopped' with another exit status, and on timeout; on any other
\* status it goes on polling.
C13_WaitResult ==
    LET n == Len(watch.seen)
    IN  /\ \A i \in 1..(n - 1) : ~Terminal(watch.seen[i])
        /\ watch.pc = "done" =>
              /\ watch.result \in BOOLEAN
              /\ watch.result = TRUE <=> (n >= 1 /\ Succeeded(watch.seen[n]))
              /\ watch.why = "timeout" <=> (n = 0 \/ ~Terminal(watch.seen[n]))
        /\ (n >= 1 /\ Terminal(watch.seen[n])) => watch.pc = "done"
        /\ (n >= 1 /\ ~Terminal(watch.seen[n])) =>
              \/ watch.pc \in {"sleep", "check", "poll"}
              \/ watch.pc = "done" /\ watch.why = "timeout" /\ watch.result = FALSE

\* a wait that saw a queued task, slept, saw it stopped with 'OK' and returned true
C13_Witness ==
    /\ watch.pc = "done"
    /\ watch.result = TRUE
    /\ Len(watch.seen) = 2
    /\ watch.seen[1].status = "queued"
    /\ Succeeded(watch.seen[2])

-----------------------------------------------------------------------------
(* Properties of the rebuild *)

\* the 'not found' class of messages: "not found" in any letter case
NotFoundClass(text) == Contains(LowerText(text), <<"not", "found">>)

Submitted(call) == \E i \in 1..Len(rebuild.calls) : rebuild.calls[i] = call

RebuildOver == rebuild.pc \in {"Done", "Failed"}

\* C4: a rebuild of a numbered container whose delete submission fails with a
\* message of the 'not found' class still submits the create, and its result is
\* the result of that create.
C4_RebuildGoesOnAfterNotFound ==
    (/\ RebuildOver
     /\ rebuild.vmid_is_int
     /\ Submitted("delete")
     /\ ~rebuild.delete_result.success
     /\ NotFoundClass(rebuild.delete_result.message))
        => /\ Submitted("create")
           /\ rebuild.pc = "Done" =>
                /\ rebuild.result.success
                /\ rebuild.result.task_id = rebuild.create_task
           /\ rebuild.pc = "Failed" => rebuild.result.message = "create"

-----------------------------------------------------------------------------
(* Properties of the request wrapper *)

\* the kind of an error: Auth as the handler recognises it, Connection for a
\* connection error that is no Auth error
Kind(e) ==
    IF Caught(e) /\ IsAuthError(e) THEN "Auth"
    ELSE IF e.class = "ConnectionError" THEN "Connection"
    ELSE "Other"

RequestOver == request.pc \in {"returned", "raised"}

\* C11: when the first call fails with an Auth-kind or a Connection-kind error
\* the session is re-established exactly once and, that done, the call is
\* retried exactly once; when the retry fails too, its error is what the
\* caller gets.
C11_RetryOnAuthOrConnection ==
    (/\ RequestOver
     /\ Len(request.calls) >= 1
     /\ Kind(request.calls[1]) \in {"Auth", "Connection"})
        => /\ Len(request.reconnects) = 1
           /\ request.reconnects[1] =>
                /\ Len(request.calls) = 2
                /\ request.calls[2] # NoError =>
                      (request.pc = "raised" /\ request.raised = request.calls[2])

\* C12: when the re-establishment of the session fails the request fails at
\* once with the connection's error: the call is not made again and no
\* further re-establishment is tried.
C12_ReconnectFailureIsFinal ==
    (\E i \in 1..Len(request.reconnects) : ~request.reconnects[i])
        => /\ request.pc = "raised"
           /\ request.raised = ConnectError
           /\ Len(request.calls) = 1
           /\ Len(request.reconnects) = 1

\* a request whose only call failed on authentication and whose reconnection failed
C12_Witness ==
    /\ request.pc = "raised"
    /\ request.reconnects = <<FALSE>>
    /\ Len(request.calls) = 1
    /\ Kind(request.calls[1]) = "Auth"

-----------------------------------------------------------------------------
(* Properties of failures *)

MainUpdates ==
    UNION {{<<c[1], c[2], env>> :
                env \in UpdateEnvsFor(rules, c[1], c[2], MainAddresses)} :
           c \in {d \in (1..nextId) \X UpdateRequests :
                    GetNatRuleById(rules, d[1]) # NoRule}}

MainDeletes == DeleteCalls(rules, nextId)

MainResyncs == ResyncCalls(rules, live, MainVmids, MainAddresses)

\* C21: create_nat_rule, update_nat_rule, delete_nat_rule and
\* resync_all_iptables_rules never let a lower-level failure escape as an
\* exception: whatever the status fetch, the address lookup, the filter
\* commands and the commits answer, every call returns its result.
C21_NoExceptionEscapes ==
    ops < MaxOps =>
        /\ \A c \in MainCreates : CreateOutcome(c).how = "returned"
        /\ \A c \in MainUpdates : UpdateOutcome(c[1], c[2], c[3]).how = "returned"
        /\ \A c \in MainDeletes : DeleteOutcome(c).how = "returned"
        /\ \A env \in MainResyncs : ResyncOutcome(env).how = "returned"

-----------------------------------------------------------------------------
(* Properties of concurrent requests *)

RaceOver == \A p \in Procs : creating[p].pc \in {"returned", "raised"}

\* the request got as far as competing for the pair: its container resolved
Competed(p) == creating[p].msg \notin {"no_ip", "not_running", "status_exception"}

EnabledFor(host_port, protocol) ==
    {r \in rules : r.enabled /\ r.host_port = host_port /\ r.protocol = protocol}

AddedBy(answers) == {p \in Procs : creating[p].added \in answers}

\* C22: two create_nat_rule calls for the same (host_port, protocol), their
\* steps interleaved in any order: never more than one enabled row for the
\* pair, never more than one entry installed for it, and a second add is run
\* only after the first one failed; when both calls competed and no add
\* failed, one call has created the rule, it alone ran an add, and the other
\* call was refused for the conflict, by the check or by the table.
C22_OneWinner ==
    /\ Cardinality(EnabledFor(8080, "tcp")) <= 1
    /\ Cardinality(AddedBy({"yes"})) <= 1
    /\ Len(live) <= 1
    /\ AddedBy({"failed"}) = {} => Cardinality(AddedBy({"yes", "failed"})) <= 1
    /\ (RaceOver /\ AddedBy({"failed"}) = {} /\ \A p \in Procs : Competed(p))
          => \E p, q \in Procs :
                /\ p # q
                /\ creating[p].msg = "created"
                /\ creating[p].db_rule \in rules
                /\ creating[q].msg \in {"conflict", "integrity"}
                /\ creating[q].added = "no"

\* both calls passed the conflict check before either committed: one is
\* refused by the table
C22_Witness ==
    /\ RaceOver
    /\ \E p, q \in Procs :
          /\ creating[p].msg = "created"
          /\ creating[q].msg = "integrity"
          /\ creating[p].req.protocol # creating[q].req.protocol
    /\ Len(live) = 1

\* the resync is between its listing and its final commit
SyncRunning == syncing.pc \in {"flush", "apply"}

\* C23: resync is serialized against the other rule-mutating operations:
\* between its listing and its final commit no create_nat_rule call takes a
\* step.
C23_ResyncSerialized == [][SyncRunning => creating' = creating]_vars

-----------------------------------------------------------------------------
(* Properties of resync, continued *)

\* C24: a resync whose listing fails returns failure, has run no iptables -D
\* and no iptables -A, has resolved no container address, and leaves every
\* row and the chain as they were.
C24_ListFailureChangesNothing ==
    ops < MaxOps =>
        \A env \in DriftResyncs :
            env.fault.list =>
                LET o == ResyncOutcome(env)
                IN  /\ o.how = "returned"
                    /\ ~o.ok
                    /\ o.msg = "list_failed"
                    /\ o.stats = NoStats
                    /\ First(o.events, IsRetract, 1) = 0
                    /\ First(o.events, IsApply, 1) = 0
                    /\ First(o.events, IsLookup, 1) = 0
                    /\ First(o.events, IsCommit, 1) = 0
                    /\ o.rules = rules
                    /\ o.live = live

\* the listing fails with tagged entries in the chain and enabled rows in the
\* table: there was something to flush and something to apply
C24_Witness ==
    /\ ops < MaxOps
    /\ TaggedLines(live) # <<>>
    /\ \E r \in rules : r.enabled
    /\ \E env \in DriftResyncs : env.fault.list /\ ~ResyncOutcome(env).ok

-----------------------------------------------------------------------------
(* Enabled implies live *)

\* every enabled row has an entry in the chain for its current protocol,
\* host port, stored address and container port
EnabledImpliesLive(rows, chain) ==
    \A r \in rows :
        r.enabled =>
            \E i \in 1..Len(chain) :
                /\ chain[i].protocol = r.protocol
                /\ chain[i].dport = r.host_port
                /\ chain[i].to_ip = r.container_ip_at_creation
                /\ chain[i].to_port = r.container_port

\* what a completed operation leaves
Keeps(o) == o.how = "returned" => EnabledImpliesLive(o.rules, o.live)

\* C25: with the operations run one at a time and every commit succeeding,
\* a create, update, delete or resync that starts with every enabled rule
\* live completes with every enabled rule live, for the rule's current
\* protocol, host port, stored address and container port; the rule an
\* operation could not apply or could not resolve is left disabled.
C25_EnabledImpliesLive ==
    (ops < MaxOps /\ EnabledImpliesLive(rules, live)) =>
        /\ \A c \in MainCreates :
              c[2].dbFailAt = 0 =>
                  LET o == CreateOutcome(c)
                  IN  /\ Keeps(o)
                      /\ o.msg = "apply_failed_disabled" => ~o.rule.enabled
        /\ \A c \in MainUpdates :
              c[3].dbFailAt = 0 =>
                  LET o == UpdateOutcome(c[1], c[2], c[3])
                  IN  /\ Keeps(o)
                      /\ (o.msg = "updated_no_ip_disabled" \/ TellsApplyFailed(o.msg))
                            => ~o.rule.enabled
        /\ \A c \in MainDeletes : c[2].dbFailAt = 0 => Keeps(DeleteOutcome(c))
        /\ \A env \in MainResyncs :
              env.dbFailAt = 0 =>
                  LET o == ResyncOutcome(env)
                  IN  /\ Keeps(o)
                      /\ o.ok => \A id \in o.stats.rules_disabled_due_to_error_ids :
                                    ~GetNatRuleById(o.rules, id).enabled

\* every enabled rule is live; an update re-enables a disabled rule and
\* leaves it enabled and live, and a resync fails to apply a rule and
\* disables it
C25_Witness ==
    /\ ops < MaxOps
    /\ EnabledImpliesLive(rules, live)
    /\ \E r \in rules : r.enabled
    /\ \E c \in MainUpdates :
          LET o == UpdateOutcome(c[1], c[2], c[3])
          IN  /\ c[3].dbFailAt = 0
              /\ ~GetNatRuleById(rules, c[1]).enabled
              /\ o.msg = "updated"
              /\ o.rule.enabled
              /\ Len(o.live) = Len(live) + 1
    /\ \E env \in MainResyncs :
          LET o == ResyncOutcome(env)
          IN  /\ env.dbFailAt = 0
              /\ o.ok
              /\ o.stats.failed_to_apply_rules = 1

-----------------------------------------------------------------------------
(* Idempotence of add *)

\* C26: applying a rule a second time leaves the chain as applying it once:
\* the chain never holds two equal entries carrying the ownership comment of
\* the same rule.
C26_AddIdempotent ==
    \A i, j \in 1..Len(live) :
        (live[i] = live[j] /\ live[i].comment.tag = OwnerTag) => i = j

-----------------------------------------------------------------------------
(* Properties of the rebuild, continued *)

\* the calls logged under one of the names
Times(names) ==
    Cardinality({i \in 1..Len(rebuild.calls) : rebuild.calls[i] \in names})

\* where a call was logged first, 0 when it was not
At(call) ==
    IF Submitted(call)
    THEN CHOOSE i \in 1..Len(rebuild.calls) :
            rebuild.calls[i] = call /\ \A j \in 1..(i - 1) : rebuild.calls[j] # call
    ELSE 0

\* the phases that may follow a phase; the waits belong to the phase of the
\* call they wait for
PhasesAfter(pc) ==
    CASE pc = "Idle" -> {"CheckRunning"}
      [] pc = "CheckRunning" -> {"Stopping", "Deleting"}
      [] pc = "Stopping" -> {"WaitStop", "Failed"}
      [] pc = "WaitStop" -> {"Deleting", "Failed"}
      [] pc = "Deleting" -> {"WaitDelete", "Creating", "Failed"}
      [] pc = "WaitDelete" -> {"Creating"}
      [] pc = "Creating" -> {"Done", "Failed"}
      [] OTHER -> {}

RebuildOrder ==
    /\ Times({"stop", "stop:false"}) <= 1
    /\ Times({"delete"}) <= 1
    /\ Times({"create"}) <= 1
    /\ Submitted("delete") =>
          /\ ~Submitted("stop:false") /\ ~Submitted("wait_stop:false")
          /\ Submitted("stop") =>
                (At("stop") < At("wait_stop") /\ At("wait_stop") < At("delete"))
    /\ Submitted("create") => (Submitted("delete") /\ At("delete") < At("create"))
    /\ rebuild.pc = "Done" => rebuild.result.success
    /\ rebuild.pc = "Failed" => ~rebuild.result.success
    /\ rebuild.result.success => rebuild.pc = "Done"

RebuildPhaseStep ==
    /\ rebuild'.pc # rebuild.pc => rebuild'.pc \in PhasesAfter(rebuild.pc)
    /\ RebuildOver => rebuild' = rebuild

\* C27: every run of rebuild_container goes through the phases in the order
\* CheckRunning, (Stopping), Deleting, Creating and ends in Done with success
\* or in Failed without; stop, delete and create are each submitted at most
\* once, the delete only after a stop that was submitted has been waited for
\* with success, the create only after the delete; and every run ends.
C27_RebuildPhases ==
    /\ []RebuildOrder
    /\ [][RebuildPhaseStep]_vars
    /\ <>RebuildOver

\* a run that went through every phase and every call
C27_Witness ==
    /\ rebuild.pc = "Done"
    /\ rebuild.calls = <<"status:running", "stop", "wait_stop", "delete",
                         "wait_delete", "create">>

\* C28: the stop is submitted if and only if the status fetch succeeded and
\* reported 'running'; when the fetch failed or reported another status the
\* first call after it is the delete.
C28_StopIffRunning ==
    Len(rebuild.calls) >= 1 =>
        /\ rebuild.calls[1] \in {"status:" \o s : s \in Statuses}
        /\ IF rebuild.calls[1] = "status:running"
           THEN /\ rebuild.pc # "Deleting" \/ Submitted("stop")
                /\ Len(rebuild.calls) = 1 => rebuild.pc = "Stopping"
                /\ Len(rebuild.calls) >= 2 => rebuild.calls[2] \in {"stop", "stop:false"}
           ELSE /\ Times({"stop", "stop:false", "wait_stop", "wait_stop:false"}) = 0
                /\ Len(rebuild.calls) = 1 => rebuild.pc = "Deleting"
                /\ Len(rebuild.calls) >= 2 => rebuild.calls[2] = "delete"

\* the status fetch failed: the run went on to the delete without a stop
C28_Witness ==
    /\ RebuildOver
    /\ rebuild.calls[1] = "status:raise"
    /\ Submitted("delete")
    /\ Times({"stop", "stop:false"}) = 0

\* C29: when the stop submission fails or the wait on the stop task returns
\* false, the rebuild returns failure with the message of the stop phase, and
\* neither the delete nor the create is submitted.
C29_StopFailureEndsRebuild ==
    (Submitted("stop:false") \/ Submitted("wait_stop:false")) =>
        /\ rebuild.pc = "Failed"
        /\ ~rebuild.result.success
        /\ rebuild.result.message =
              (IF Submitted("stop:false") THEN "stop" ELSE "stop_task")
        /\ Times({"delete", "wait_delete", "wait_delete:false", "create"}) = 0

C29_Witness ==
    /\ rebuild.pc = "Failed"
    /\ rebuild.calls = <<"status:running", "stop", "wait_stop:false">>

\* C30: when the delete submission succeeded, the rebuild of a numbered
\* container waits on the delete task and, whatever the wait returned,
\* submits the create; its result is the result of the create submission.
C30_DeleteWaitIsAdvisory ==
    (Submitted("delete") /\ rebuild.delete_result.success /\ rebuild.vmid_is_int) =>
        /\ rebuild.pc \in {"WaitDelete", "Creating", "Done", "Failed"}
        /\ rebuild.pc # "WaitDelete" =>
              Times({"wait_delete", "wait_delete:false"}) = 1
        /\ Submitted("create") =>
              (At("delete") + 1 \in {At("wait_delete"), At("wait_delete:false")})
        /\ RebuildOver =>
              /\ Submitted("create")
              /\ rebuild.result.success <=> rebuild.create_task # None
              /\ rebuild.pc = "Done" => rebuild.result.task_id = rebuild.create_task
              /\ rebuild.pc = "Failed" => rebuild.result.message = "create"

\* the wait on the delete task returned false and the rebuild succeeded
C30_Witness ==
    /\ rebuild.pc = "Done"
    /\ Submitted("wait_delete:false")
    /\ rebuild.result.success

C32_CreateDecidesResult ==
    (RebuildOver /\ Submitted("create")) =>
        IF rebuild.create_task # None
        THEN /\ rebuild.pc = "Done"
             /\ rebuild.result.success
             /\ rebuild.result.task_id = rebuild.create_task
        ELSE /\ rebuild.pc = "Failed"
             /\ ~rebuild.result.success
             /\ rebuild.result.message = "create"
             /\ rebuild.result.message \notin {"stop", "stop_task", "delete", "exception"}

\* the create submission failed after a stop and a delete that succeeded
C32_Witness ==
    /\ rebuild.pc = "Failed"
    /\ rebuild.calls = <<"status:running", "stop", "wait_stop", "delete",
                         "wait_delete", "create">>
    /\ rebuild.result.message = "create"

-----------------------------------------------------------------------------
(* Properties of resync: the flush, the report, the frame *)

Retractions(events) == SelectSeq(events, IsRetract)
Additions(events) == SelectSeq(events, IsApply)

Failures(cmds) == Cardinality({i \in 1..Len(cmds) : ~cmds[i].ok})

EnabledRows(rows) == {r \in rows : r.enabled}

\* C33: a resync whose listing succeeds runs one delete for every entry of
\* the chain that carries the ownership tag, last entry first, whether or not
\* earlier deletes failed, and then looks up the container of every enabled
\* row; when it completes, cleared_rules + failed_to_clear_rules is the
\* number of tagged entries listed and failed_to_clear_rules the number of
\* deletes that failed.
C33_FlushToleratesFailures ==
    ops < MaxOps =>
        \A env \in DriftResyncs :
            ~env.fault.list =>
                LET o == ResyncOutcome(env)
                    dels == Retractions(o.events)
                IN  /\ [i \in 1..Len(dels) |-> dels[i].spec] = Reverse(TaggedLines(live))
                    /\ Len(Lookups(o.events)) = Cardinality(EnabledRows(rules))
                    /\ o.ok =>
                          /\ o.stats.cleared_rules + o.stats.failed_to_clear_rules
                                = Len(TaggedLines(live))
                          /\ o.stats.failed_to_clear_rules = Failures(dels)

\* two tagged entries are listed, both deletes fail, and a rule is applied
C33_Witness ==
    /\ ops < MaxOps
    /\ Len(TaggedLines(live)) >= 2
    /\ \E env \in DriftResyncs :
          LET o == ResyncOutcome(env)
          IN  /\ env.fault.del
              /\ o.ok
              /\ o.stats.failed_to_clear_rules = Len(TaggedLines(live))
              /\ o.stats.applied_rules >= 1

\* the ids of the rows enabled before the call and disabled after it
TurnedOff(o) ==
    {r.id : r \in {q \in EnabledRows(rules) : ~GetNatRuleById(o.rules, q.id).enabled}}

StillEnabled(o) ==
    {r.id : r \in {q \in EnabledRows(rules) : GetNatRuleById(o.rules, q.id).enabled}}

\* C34: the report of a resync that completes agrees with the state it
\* leaves: applied_rules is the number of rules enabled before and after,
\* failed_to_apply_rules the number of adds that failed,
\* rules_disabled_due_to_error_ids the rules enabled before and disabled
\* after, and applied_rules plus the size of that set the number of rules
\* enabled at the start.
C34_ReportAgreesWithState ==
    ops < MaxOps =>
        \A env \in DriftResyncs :
            LET o == ResyncOutcome(env)
            IN  o.ok =>
                  /\ o.stats.applied_rules = Cardinality(StillEnabled(o))
                  /\ o.stats.failed_to_apply_rules = Failures(Additions(o.events))
                  /\ o.stats.rules_disabled_due_to_error_ids = TurnedOff(o)
                  /\ o.stats.applied_rules
                        + Cardinality(o.stats.rules_disabled_due_to_error_ids)
                        = Cardinality(EnabledRows(rules))

\* one rule could not be resolved and the add of another failed
C34_Witness ==
    /\ ops < MaxOps
    /\ \E env \in DriftResyncs :
          LET o == ResyncOutcome(env)
          IN  /\ o.ok
              /\ o.stats.failed_to_apply_rules = 1
              /\ Cardinality(o.stats.rules_disabled_due_to_error_ids) = 2
              /\ Len(Lookups(o.events)) = 2

-----------------------------------------------------------------------------
(* Properties of the request wrapper, continued *)

\* C35: one _do_request makes the wrapped call at most twice and reconnects
\* at most once; when the first call fails with an error that is neither of
\* the Auth kind nor a connection error, that call is the only one, nothing
\* is reconnected and the caller gets that error.
C35_RetryBudget ==
    /\ Len(request.calls) <= MaxRetries + 1
    /\ Len(request.reconnects) <= 1
    /\ (/\ Len(request.calls) >= 1
        /\ request.calls[1] # NoError
        /\ Kind(request.calls[1]) = "Other")
          => /\ request.pc = "raised"
             /\ request.raised = request.calls[1]
             /\ Len(request.calls) = 1
             /\ request.reconnects = <<>>

\* the only call failed with a server error and the caller got that error
C35_Witness ==
    /\ request.pc = "raised"
    /\ request.calls = <<[class |-> "HTTPError", status_code |-> 500, text |-> "failed"]>>
    /\ request.reconnects = <<>>

\* C36: the call retried after a reconnection that succeeded runs on the
\* session the reconnection established, not on the one the call was taken
\* from before the request.
C36_RetryOnNewSession ==
    (request.bound # 0 /\ Len(request.calls) = 2 /\ request.reconnects = <<TRUE>>)
        => request.used[2] = request.session

-----------------------------------------------------------------------------
(* Properties of retractions *)

\* the entries of the chain that translate the rule's protocol and host port
\* to its stored address and container port
Installed(r, chain) ==
    {chain[i] : i \in {j \in 1..Len(chain) :
                          /\ chain[j].protocol = r.protocol
                          /\ chain[j].dport = r.host_port
                          /\ chain[j].to_ip = r.container_ip_at_creation
                          /\ chain[j].to_port = r.container_port}}

\* every retraction among the events names an entry installed for the rule
InvertsAdd(r, events) ==
    (r.enabled /\ Installed(r, live) # {}) =>
        \A i \in 1..Len(events) :
            IsRetract(events[i]) => events[i].spec \in Installed(r, live)

\* C37: the retraction delete_nat_rule or update_nat_rule issues for an
\* enabled rule that is installed is the inverse of the add that installed
\* it: same protocol, host port, destination and ownership comment, also
\* after an update that changed only the description.
C37_RetractionInvertsAdd ==
    ops < MaxOps =>
        /\ \A c \in MainDeletes :
              InvertsAdd(GetNatRuleById(rules, c[1]), DeleteOutcome(c).events)
        /\ \A c \in MainUpdates :
              InvertsAdd(GetNatRuleById(rules, c[1]),
                         UpdateOutcome(c[1], c[2], c[3]).events)

\* C38: a create whose protocol is spelled in upper case, for a host port an
\* enabled rule already claims with that protocol in lower case, is rejected
\* as a conflict.
C38_ConflictIgnoresCase ==
    ops < MaxOps =>
        \A c \in MainCreates :
            (c[1].protocol # Lower(c[1].protocol)
                /\ CheckHostPortConflict(rules, c[1].host_port,
                                         Lower(c[1].protocol), 0))
                => CreateOutcome(c).msg = "conflict"

-----------------------------------------------------------------------------
(* Properties of the reconciler's frame *)

\* the row as the resync may leave it: nothing but enabled and the stored
\* address differ from the row it was
SameButStateAndAddress(q, r) ==
    [q EXCEPT !.enabled = r.enabled,
              !.container_ip_at_creation = r.container_ip_at_creation] = r

\* the command that adds the rule with the address resolved during the call
AddFor(r, env) ==
    IptablesSpec([r EXCEPT !.container_ip_at_creation = env.ip[r.vmid]])

\* C39: a resync creates no row and deletes none, leaves every row that was
\* disabled as it was, changes nothing but enabled (to false) and
\* container_ip_at_creation of the rows that were enabled, and issues adds
\* for rows that were enabled at its start only.
C39_ResyncFrame ==
    ops < MaxOps =>
        \A env \in DriftResyncs :
            LET o == ResyncOutcome(env)
                adds == Additions(o.events)
            IN  /\ {q.id : q \in o.rules} = {r.id : r \in rules}
                /\ Cardinality(o.rules) = Cardinality(rules)
                /\ o.nextId = nextId
                /\ \A r \in rules :
                      LET q == GetNatRuleById(o.rules, r.id)
                      IN  /\ ~r.enabled => q = r
                          /\ SameButStateAndAddress(q, r)
                /\ Len(adds) <= Cardinality(EnabledRows(rules))
                /\ \A i \in 1..Len(adds) :
                      \E r \in EnabledRows(rules) : adds[i].spec = AddFor(r, env)

\* beside a disabled row, a resync repaired the address of one rule, which
\* stayed enabled, and disabled another
C39_Witness ==
    /\ ops < MaxOps
    /\ \E r \in rules : ~r.enabled
    /\ \E env \in DriftResyncs :
          LET o == ResyncOutcome(env)
          IN  /\ o.ok
              /\ \E r \in EnabledRows(rules) :
                    LET q == GetNatRuleById(o.rules, r.id)
                    IN  q.enabled
                          /\ q.container_ip_at_creation # r.container_ip_at_creation
              /\ TurnedOff(o) # {}

=============================================================================
